---- MODULE Spec2Model ----
(***************************************************************************)
(* Gangwar: the shared, process-wide resources of the web game server      *)
(* (high-score file, poll-based chat list, current-drug-prices file) and   *)
(* the per-session GameState, modelled from src/src/app.py (the richest    *)
(* iteration of the server) with the earlier iteration src/app.py where a  *)
(* definition says so.                                                     *)
(*                                                                         *)
(* Strings that the code only compares for equality (player, gang names)   *)
(* are model strings; "" is the empty string.  Calendar days are numbered. *)
(***************************************************************************)
EXTENDS Integers, Sequences, FiniteSets, TLC

\* ------------------------------------------------------------------ bounds
\* Leaderboard commits started in one behaviour.
MaxCommits == 3

\* ------------------------------------------------------- program constants
\* high_scores = high_scores[:10]
HIGH_SCORES_KEPT == 10

\* Browser sessions (also: request threads; the server is threaded and the
\* shared files are read-modify-written with no lock).
Sessions == {"s1", "s2"}

VARIABLES
    high_scores,    \* contents of high_scores.json: a sequence of HighScore
    hs_call,        \* per session, its running check_and_update_high_scores:
                    \* pc ("idle" | "loaded"), the list it loaded, its new entry
    hs_initial,     \* what the file held at process start (never changes)
    hs_best,        \* per named pair: the highest score a finished commit
                    \* submitted for it, -1 when none has
    hs_started,     \* commits started so far
    chat_messages,  \* the in-process list chat_messages
    chat_clock,     \* time.time() as the number of messages accepted so far
    chat_max_id,    \* the highest id add_chat_message has assigned, 0 at start
    chat_response,  \* the chat API's latest JSON response
    chat_client,    \* a polling client: its cursor, and the clock of its
                    \* latest poll
    price_file,     \* contents of current_drug_prices.json
    today,          \* the calendar day time.strftime("%Y-%m-%d") returns
    price_regen_day,\* calendar day of the latest price regeneration, 0: none
    last_request,   \* the latest page request and what it did to the prices
    gs,             \* per session, session['game_state']
    hs_daily,       \* per session and (player, gang), the session's keys
                    \* last_high_score_update_* and last_high_score_day_*
    last_fight,     \* the latest fight request and how it ended
    alley_room,     \* per session, session['current_alleyway_room']
    ledger,         \* per session, what the bank and the day-ends did to
                    \* the current loan, and the latest bank or shop request
    npcs_data,      \* the process-global NPC roster npcs_data
    early_gs,       \* per session, session['game_state'] of the earlier
                    \* iteration of the server (src/app.py): whether it is
                    \* there, its bank and alleyway fields, and the page the
                    \* latest request was sent to
    pvp             \* the earlier iteration's process-global duel maps
                    \* players_in_rooms and active_pvp_fights, and the
                    \* challenges that passed handle_pvp_challenge

hs_vars == << high_scores, hs_call, hs_initial, hs_best, hs_started >>
chat_vars == << chat_messages, chat_clock, chat_max_id, chat_response, chat_client >>
price_vars == << price_file, today, price_regen_day, last_request >>
game_vars == << gs, hs_daily, last_fight, alley_room, ledger >>
world_vars == << npcs_data, early_gs, pvp >>
vars == << hs_vars, chat_vars, price_vars, game_vars, world_vars >>

Max(a, b) == IF a >= b THEN a ELSE b
Min(a, b) == IF a <= b THEN a ELSE b

\* ============================================================ High Scores

\* dataclass HighScore (date_achieved, a wall-clock string no code reads
\* back, is left out)
HighScore(player_name, gang_name, score, money_earned, days_survived, gang_wars_won, fights_won) ==
    [player_name |-> player_name, gang_name |-> gang_name, score |-> score,
     money_earned |-> money_earned, days_survived |-> days_survived,
     gang_wars_won |-> gang_wars_won, fights_won |-> fights_won]

\* calculate_score: // is floor division, as \div is
calculate_score(money_earned, days_survived, gang_wars_won, fights_won) ==
    LET money_score == Max(0, (money_earned - 1000) \div 1000)
        survival_score == Max(0, (days_survived - 1) * 100)
        gang_war_score == gang_wars_won * 1000
        fight_score == fights_won * 50
    IN  money_score + survival_score + gang_war_score + fight_score

\* the for/enumerate loop with break: index of the first entry of the same
\* (player_name, gang_name), 0 when there is none
ExistingEntry(scores, new_score) ==
    LET hits == {i \in 1..Len(scores) :
                    /\ scores[i].player_name = new_score.player_name
                    /\ scores[i].gang_name = new_score.gang_name}
    IN  IF hits = {} THEN 0 ELSE CHOOSE i \in hits : \A j \in hits : i <= j

\* list.sort(key=score, reverse=True): a stable sort, entries of equal score
\* keep their order.  InsertDesc puts e after every entry scoring >= e.
RECURSIVE InsertDesc(_, _)
InsertDesc(sorted, e) ==
    IF sorted = << >> THEN << e >>
    ELSE IF Head(sorted).score >= e.score
         THEN << Head(sorted) >> \o InsertDesc(Tail(sorted), e)
         ELSE << e >> \o sorted

RECURSIVE SortByScoreDesc(_)
SortByScoreDesc(scores) ==
    IF scores = << >> THEN << >>
    ELSE InsertDesc(SortByScoreDesc(SubSeq(scores, 1, Len(scores) - 1)),
                    scores[Len(scores)])

\* a variant that forgets the else: the new entry is appended even when the
\* pair already has one
MergeAlwaysAppend(scores, new_score) ==
    LET i == ExistingEntry(scores, new_score)
    IN  IF i > 0 /\ new_score.score > scores[i].score
        THEN Append([scores EXCEPT ![i] = new_score], new_score)
        ELSE Append(scores, new_score)

\* if existing_entry: replace when score > old_score.score; else: append
MergeScore(scores, new_score) ==
    LET i == ExistingEntry(scores, new_score)
    IN  IF i > 0
        THEN IF new_score.score > scores[i].score
             THEN [scores EXCEPT ![i] = new_score]
             ELSE scores
        ELSE Append(scores, new_score)

\* merge, sort by score (highest first), keep only the top 10
UpdatedScores(scores, new_score) ==
    LET sorted == SortByScoreDesc(MergeScore(scores, new_score))
    IN  SubSeq(sorted, 1, Min(Len(sorted), HIGH_SCORES_KEPT))

\* ------------------------------------------------------------- the inputs
\* (player_name, gang_name) of the games that commit: two gangs of one
\* player, two players of one gang.  EmptyNamed: a name field left empty.
NamedPairs == {<< "al", "x" >>, << "al", "y" >>, << "bo", "x" >>}
EmptyNamed == {<< "", "x" >>, << "al", "" >>}
\* << money + account, day >> of the committing GameState with the
\* gang_wars_won argument (every caller passes fights_won = 0): a fresh
\* game, one with $500 more, one on day 5, one that won the gang war.
\* Their scores: 0, 0, 400, 1000.
StatLines == {<< 1000, 1, 0 >>, << 1500, 1, 0 >>, << 1000, 5, 0 >>, << 1000, 1, 1 >>}

\* What high_scores.json may hold when the process starts: nothing, or the
\* entries earlier runs committed.  The stored board is built with the
\* commit's own UpdatedScores, so it is a board the program writes.
RECURSIVE CommitAll(_, _)
CommitAll(scores, entries) ==
    IF entries = << >> THEN scores
    ELSE CommitAll(UpdatedScores(scores, Head(entries)), Tail(entries))

OldDays == << 2, 3, 4, 6, 7, 8, 9, 10, 11 >>
StoredBoard ==
    CommitAll(<< >>,
        [k \in 1..Len(OldDays) |->
            HighScore("old", "g" \o ToString(OldDays[k]),
                      calculate_score(1000, OldDays[k], 0, 0), 1000, OldDays[k], 0, 0)]
        \o << HighScore("al", "x", calculate_score(1000, 5, 0, 0), 1000, 5, 0, 0) >>)

IdleCall == [pc |-> "idle", loaded |-> << >>, new_score |-> << >>]

HsInit ==
    /\ high_scores \in {<< >>, StoredBoard}
    /\ hs_call = [s \in Sessions |-> IdleCall]
    /\ hs_initial = high_scores
    /\ hs_best = [pr \in NamedPairs |-> -1]
    /\ hs_started = 0

\* the call's locals once load_high_scores() has returned: the list read and
\* the new entry built from the caller's GameState
LoadedCall(scores, player_name, gang_name, money_earned, days_survived, gang_wars_won, fights_won) ==
    [pc |-> "loaded", loaded |-> scores,
     new_score |-> HighScore(player_name, gang_name,
                             calculate_score(money_earned, days_survived,
                                             gang_wars_won, fights_won),
                             money_earned, days_survived, gang_wars_won, fights_won)]

\* check_and_update_high_scores, entered with an empty player or gang name:
\* returns at once
HsCommitAnonymous(s, player_name, gang_name) ==
    /\ hs_call[s].pc = "idle"
    /\ player_name = "" \/ gang_name = ""
    /\ UNCHANGED world_vars
    /\ UNCHANGED << hs_vars, chat_vars, price_vars, game_vars >>

\* check_and_update_high_scores up to and including load_high_scores():
\* the score and the new entry are computed, the file is read
HsCommitLoad(s, player_name, gang_name, money_earned, days_survived, gang_wars_won) ==
    /\ hs_call[s].pc = "idle"
    /\ hs_started < MaxCommits
    /\ player_name # "" /\ gang_name # ""
    /\ hs_call' = [hs_call EXCEPT ![s] =
                       LoadedCall(high_scores, player_name, gang_name, money_earned,
                                  days_survived, gang_wars_won, 0)]
    /\ hs_started' = hs_started + 1
    /\ UNCHANGED world_vars
    /\ UNCHANGED << high_scores, hs_initial, hs_best, chat_vars, price_vars, game_vars >>

\* a save that holds a lock on the file: it merges into what the file holds
\* when it writes
HsCommitSaveLocked(s) ==
    /\ hs_call[s].pc = "loaded"
    /\ high_scores' = UpdatedScores(high_scores, hs_call[s].new_score)
    /\ LET n == hs_call[s].new_score
           pr == << n.player_name, n.gang_name >>
       IN  hs_best' = [hs_best EXCEPT ![pr] = Max(@, n.score)]
    /\ hs_call' = [hs_call EXCEPT ![s] = IdleCall]
    /\ UNCHANGED world_vars
    /\ UNCHANGED << hs_initial, hs_started, chat_vars, price_vars, game_vars >>

\* the rest of check_and_update_high_scores: merge into the list that was
\* loaded, sort, truncate, save_high_scores (the file is rewritten whole)
HsCommitSave(s) ==
    /\ hs_call[s].pc = "loaded"
    /\ high_scores' = UpdatedScores(hs_call[s].loaded, hs_call[s].new_score)
    /\ LET n == hs_call[s].new_score
           pr == << n.player_name, n.gang_name >>
       IN  hs_best' = [hs_best EXCEPT ![pr] = Max(@, n.score)]
    /\ hs_call' = [hs_call EXCEPT ![s] = IdleCall]
    /\ UNCHANGED world_vars
    /\ UNCHANGED << hs_initial, hs_started, chat_vars, price_vars, game_vars >>

HsNext ==
    \/ \E s \in Sessions, pr \in EmptyNamed : HsCommitAnonymous(s, pr[1], pr[2])
    \/ \E s \in Sessions, pr \in NamedPairs, st \in StatLines :
           HsCommitLoad(s, pr[1], pr[2], st[1], st[2], st[3])
    \/ \E s \in Sessions : HsCommitSave(s)

\* ---------------------------------------------------- the score function
\* arguments of calculate_score: money_earned, days_survived, gang_wars_won,
\* fights_won
ScoreMoney == {0, 999, 1000, 1999, 5000}
ScoreDays == {0, 1, 3}
ScoreWars == {0, 1}
ScoreFights == {0, 2}

\* calculate_score called on arguments of these sets, the entry built from
\* its result as check_and_update_high_scores builds it
CalculateScore(s, money_earned, days_survived, gang_wars_won, fights_won) ==
    /\ hs_call' = [hs_call EXCEPT ![s] =
                       LoadedCall(high_scores, "al", "x", money_earned, days_survived,
                                  gang_wars_won, fights_won)]
    /\ UNCHANGED world_vars
    /\ UNCHANGED << high_scores, hs_initial, hs_best, hs_started, chat_vars, price_vars,
                    game_vars >>

ScoreNext ==
    \E s \in Sessions, m \in ScoreMoney, d \in ScoreDays, w \in ScoreWars, f \in ScoreFights :
        CalculateScore(s, m, d, w, f)

\* C34: the score is floor(money_earned / 1000) + 100 * days_survived
\* + 1000 * gang_wars_won + 50 * fights_won; for 5000, 3, 1, 2 it is 1405.
C34_ScoreFormula ==
    \A s \in Sessions :
        hs_call[s].pc = "loaded" =>
            LET n == hs_call[s].new_score
            IN  /\ n.score = n.money_earned \div 1000 + 100 * n.days_survived
                                 + 1000 * n.gang_wars_won + 50 * n.fights_won
                /\ (n.money_earned = 5000 /\ n.days_survived = 3
                    /\ n.gang_wars_won = 1 /\ n.fights_won = 2) => n.score = 1405

\* ------------------------------------------------- leaderboard properties
PairOf(e) == << e.player_name, e.gang_name >>

BoardIndex(scores, pr) == {i \in 1..Len(scores) : PairOf(scores[i]) = pr}

SortedDesc(scores) ==
    \A i \in 1..(Len(scores) - 1) : scores[i].score >= scores[i + 1].score

\* every pair some finished commit (or an earlier run) submitted, and the
\* best score submitted for it
CommittedPairs ==
    {PairOf(hs_initial[i]) : i \in 1..Len(hs_initial)}
    \cup {pr \in NamedPairs : hs_best[pr] >= 0}

BestCommitted(pr) ==
    LET stored == {hs_initial[i].score : i \in BoardIndex(hs_initial, pr)}
        here == IF pr \in NamedPairs THEN {hs_best[pr]} ELSE {}
        all == stored \cup here
    IN  CHOOSE x \in all : \A y \in all : x >= y

\* C1: after every commit, under any interleaving of commits, the stored
\* leaderboard holds at most 10 entries sorted by descending score, and of
\* the n distinct pairs committed it holds exactly the min(n, 10)
\* highest-scoring ones (each with the best score submitted for it).
C1_TopTenOfCommitted ==
    /\ Len(high_scores) <= 10
    /\ SortedDesc(high_scores)
    /\ Len(high_scores) = Min(Cardinality(CommittedPairs), 10)
    /\ \A i \in 1..Len(high_scores) :
           /\ PairOf(high_scores[i]) \in CommittedPairs
           /\ high_scores[i].score = BestCommitted(PairOf(high_scores[i]))
    /\ \A pr \in CommittedPairs :
           BoardIndex(high_scores, pr) = {} =>
               \A i \in 1..Len(high_scores) : high_scores[i].score >= BestCommitted(pr)

\* C26: the shared file is read-modify-written without locking, so that a
\* concurrent writer's update is lost: when a commit saves, every pair that
\* is neither its own nor in the list it had loaded is absent from the file
\* it leaves, whatever another commit stored in between.
C26_SaveDropsWhatItDidNotLoad ==
    [][\A s \in Sessions :
          (hs_call[s].pc = "loaded" /\ hs_call'[s].pc = "idle")
              => \A pr \in NamedPairs :
                     (/\ pr # PairOf(hs_call[s].new_score)
                      /\ BoardIndex(hs_call[s].loaded, pr) = {})
                         => BoardIndex(high_scores', pr) = {}]_vars

\* two commits for different pairs have finished on a board that started
\* empty, and the file holds the entry of only one of them
C26_OneOfTwoCommitsLost ==
    /\ hs_initial = << >>
    /\ \A s \in Sessions : hs_call[s].pc = "idle"
    /\ \E p1 \in NamedPairs, p2 \in NamedPairs :
           /\ p1 # p2
           /\ hs_best[p1] >= 0 /\ hs_best[p2] >= 0
           /\ BoardIndex(high_scores, p1) # {}
           /\ BoardIndex(high_scores, p2) = {}

\* C2: the stored leaderboard never holds two entries of one
\* (player name, gang name) pair, whatever the interleaving of commits.
C2_OneEntryPerPair ==
    \A i, j \in 1..Len(high_scores) :
        PairOf(high_scores[i]) = PairOf(high_scores[j]) => i = j

\* C2's case: two sessions committed the same pair in overlapping calls (both
\* read the empty file, both wrote), and the later write stored an entry that
\* scores less than the earlier one.
C2_OverlappingSamePair ==
    /\ hs_initial = << >>
    /\ \A s \in Sessions : hs_call[s].pc = "idle"
    /\ Len(high_scores) = 1
    /\ PairOf(high_scores[1]) \in NamedPairs
    /\ high_scores[1].score < hs_best[PairOf(high_scores[1])]

\* C3: a commit for a pair that has a stored entry replaces it if and only if
\* the new score is strictly higher, a lower or equal one leaves the stored
\* entry as it is; so no step lowers the stored score of a pair that stays on
\* the board, nor changes its entry other than to a higher-scoring one.
C3_ReplacedOnlyByHigher ==
    [][/\ \A i \in 1..Len(high_scores), j \in 1..Len(high_scores') :
              PairOf(high_scores'[j]) = PairOf(high_scores[i]) =>
                  \/ high_scores'[j] = high_scores[i]
                  \/ high_scores'[j].score > high_scores[i].score
       /\ \A s \in Sessions :
              (hs_call[s].pc = "loaded" /\ hs_call'[s].pc = "idle") =>
                  \A i \in BoardIndex(high_scores, PairOf(hs_call[s].new_score)) :
                      IF hs_call[s].new_score.score > high_scores[i].score
                      THEN \E j \in 1..Len(high_scores') :
                               high_scores'[j] = hs_call[s].new_score
                      ELSE \E j \in 1..Len(high_scores') :
                               high_scores'[j] = high_scores[i]
      ]_vars

\* ===================================================== Polling-based chat

\* bound: chat messages accepted in one behaviour
MaxSends == 150

\* CHAT_MAX_MESSAGES = 100
CHAT_MAX_MESSAGES == 100
\* if len(message) > 200: rejected
CHAT_MAX_LENGTH == 200

\* A message text is modelled by its length after strip(), the one thing the
\* code looks at: an empty one, an ordinary one, one that is too long.
MessageLengths == {0, 2, 201}

\* the msg dict of add_chat_message (time_str is timestamp formatted)
ChatMessage(id, player, message, timestamp) ==
    [id |-> id, player |-> player, message |-> message, timestamp |-> timestamp]

\* a variant that drops the newest message instead of the oldest
AppendDropNewest(messages, msg) ==
    LET appended == Append(messages, msg)
    IN  IF Len(appended) > CHAT_MAX_MESSAGES
        THEN SubSeq(appended, 1, Len(appended) - 1)
        ELSE appended

\* chat_messages.append(msg); if len(chat_messages) > CHAT_MAX_MESSAGES:
\* chat_messages.pop(0)
AppendCapped(messages, msg) ==
    LET appended == Append(messages, msg)
    IN  IF Len(appended) > CHAT_MAX_MESSAGES THEN Tail(appended) ELSE appended

\* 'id': len(chat_messages) + 1
NextChatId(messages) == Len(messages) + 1

\* a variant that also returns the message the cursor names
MessagesFrom(messages, last_id) ==
    SelectSeq(messages, LAMBDA m : m.id >= last_id)

\* new_messages = [m for m in chat_messages if m['id'] > last_id]
MessagesAfter(messages, last_id) ==
    SelectSeq(messages, LAMBDA m : m.id > last_id)

NoResponse == [kind |-> "none"]

ChatInit ==
    /\ chat_messages = << >>
    /\ chat_clock = 0
    /\ chat_max_id = 0
    /\ chat_response = NoResponse
    /\ chat_client = [polled |-> FALSE, cursor |-> 0, polled_at |-> 0]

\* POST /api/chat/send with an empty or an over-long message: a 400, nothing
\* is stored
SendChatRejected(message) ==
    /\ message = 0 \/ message > CHAT_MAX_LENGTH
    /\ chat_response' = [kind |-> "error", status |-> 400]
    /\ UNCHANGED world_vars
    /\ UNCHANGED << chat_messages, chat_clock, chat_max_id, chat_client, hs_vars,
                    price_vars, game_vars >>

\* POST /api/chat/send, accepted: add_chat_message builds the msg, appends it,
\* drops the oldest beyond the cap; the msg is returned
SendChatMessage(player_name, message) ==
    /\ chat_clock < MaxSends
    /\ message > 0 /\ message <= CHAT_MAX_LENGTH
    /\ LET msg == ChatMessage(NextChatId(chat_messages), player_name, message,
                              chat_clock + 1)
       IN  /\ chat_messages' = AppendCapped(chat_messages, msg)
           /\ chat_max_id' = Max(chat_max_id, msg.id)
           /\ chat_response' = [kind |-> "sent", message |-> msg]
    /\ chat_clock' = chat_clock + 1
    /\ UNCHANGED world_vars
    /\ UNCHANGED << chat_client, hs_vars, price_vars, game_vars >>

\* GET /api/chat/messages?last_id=<n>
GetChatMessages(last_id) ==
    /\ LET new_messages == MessagesAfter(chat_messages, last_id)
       IN  chat_response' = [kind |-> "messages", last_id |-> last_id,
                             messages |-> new_messages, count |-> Len(new_messages)]
    /\ UNCHANGED world_vars
    /\ UNCHANGED << chat_messages, chat_clock, chat_max_id, chat_client, hs_vars,
                    price_vars, game_vars >>

\* GET /api/chat/messages with a last_id that int() rejects: last_id = 0
GetChatMessagesBadCursor ==
    /\ LET new_messages == MessagesAfter(chat_messages, 0)
       IN  chat_response' = [kind |-> "messages", last_id |-> 0,
                             messages |-> new_messages, count |-> Len(new_messages)]
    /\ UNCHANGED world_vars
    /\ UNCHANGED << chat_messages, chat_clock, chat_max_id, chat_client, hs_vars,
                    price_vars, game_vars >>

\* the greatest id among the messages of a response, the cursor when it
\* holds none
GreatestId(messages, cursor) ==
    IF messages = << >> THEN cursor
    ELSE LET ids == {messages[i].id : i \in 1..Len(messages)} \cup {cursor}
         IN  CHOOSE x \in ids : \A y \in ids : x >= y

\* a poll of the client: GET /api/chat/messages?last_id=<the greatest id it
\* has received so far>, 0 before it has received any
ClientPoll ==
    /\ LET new_messages == MessagesAfter(chat_messages, chat_client.cursor)
       IN  /\ chat_response' = [kind |-> "messages", last_id |-> chat_client.cursor,
                                messages |-> new_messages, count |-> Len(new_messages)]
           /\ chat_client' = [polled |-> TRUE,
                              cursor |-> GreatestId(new_messages, chat_client.cursor),
                              polled_at |-> chat_clock]
    /\ UNCHANGED world_vars
    /\ UNCHANGED << chat_messages, chat_clock, chat_max_id, hs_vars, price_vars, game_vars >>

\* the chat with one client polling it
PollNext ==
    \/ SendChatMessage("al", 2)
    \/ ClientPoll

\* C35: a client that polls with the greatest id it has received as cursor
\* receives every message accepted after its first poll exactly once: each
\* poll returns exactly the messages accepted since its previous poll, when
\* fewer than 100 were, however many have been sent in total.
C35_PollReturnsAllNewMessages ==
    [][(/\ chat_client.polled
        /\ chat_client'.polled_at = chat_clock
        /\ chat_response'.kind = "messages"
        /\ chat_client' # chat_client \/ chat_response' # chat_response
        /\ chat_clock - chat_client.polled_at < CHAT_MAX_MESSAGES)
           => LET got == chat_response'.messages
              IN  /\ Len(got) = chat_clock - chat_client.polled_at
                  /\ \A i \in 1..Len(got) :
                         got[i].timestamp = chat_client.polled_at + i]_vars

\* the cursors a client sends: 0, the ids of the oldest, the middle and the
\* newest retained message, the highest id assigned so far, and one past it
Cursors ==
    {0, chat_max_id, chat_max_id + 1}
    \cup {chat_messages[i].id :
             i \in {1, (Len(chat_messages) + 1) \div 2, Len(chat_messages)}
                   \cap (1..Len(chat_messages))}

ChatNext ==
    \/ \E n \in MessageLengths : SendChatRejected(n)
    \/ \E n \in MessageLengths : SendChatMessage("al", n)
    \/ \E c \in Cursors : GetChatMessages(c)
    \/ GetChatMessagesBadCursor

\* -------------------------------------------------------- chat properties
\* C4: message ids increase strictly: the retained messages carry strictly
\* increasing ids (so no two share one), and the newest one carries the
\* highest id ever assigned, also after the 100-message cap is reached.
C4_IdsStrictlyIncrease ==
    /\ \A i, j \in 1..Len(chat_messages) :
           i < j => chat_messages[i].id < chat_messages[j].id
    /\ chat_response.kind = "sent" =>
           \A i \in 1..(Len(chat_messages) - 1) :
               chat_messages[i].id < chat_response.message.id

\* C5: the list never holds more than 100 messages and is exactly the most
\* recently accepted messages in acceptance order (after 150 accepted sends,
\* the 51st to the 150th); a fetch from cursor 0 retrieves exactly them.
C5_MostRecentHundred ==
    /\ Len(chat_messages) <= 100
    /\ Len(chat_messages) = Min(chat_clock, 100)
    /\ \A i \in 1..Len(chat_messages) :
           chat_messages[i].timestamp = chat_clock - Len(chat_messages) + i
    /\ (chat_response.kind = "messages" /\ chat_response.last_id = 0) =>
           chat_response.messages = chat_messages

\* C5's case: 150 messages were accepted, the 51st is the oldest retained.
C5_After150Sends ==
    /\ chat_clock = 150
    /\ Len(chat_messages) = 100
    /\ chat_messages[1].timestamp = 51
    /\ chat_messages[100].timestamp = 150

\* the i-th (in list order) of the retained messages whose id exceeds c
KeptIndex(c) == {i \in 1..Len(chat_messages) : chat_messages[i].id > c}
NthKept(c, k) ==
    CHOOSE i \in KeptIndex(c) : Cardinality({j \in KeptIndex(c) : j <= i}) = k

\* C6: a fetch with cursor c returns exactly the retained messages whose id
\* is greater than c, in ascending id order; none when c is the highest id
\* ever assigned, all retained messages when c = 0.
C6_FetchAfterCursor ==
    chat_response.kind = "messages" =>
        LET c == chat_response.last_id
            r == chat_response.messages
        IN  /\ Len(r) = Cardinality(KeptIndex(c))
            /\ chat_response.count = Len(r)
            /\ \A k \in 1..Len(r) : r[k] = chat_messages[NthKept(c, k)]
            /\ \A k \in 1..(Len(r) - 1) : r[k].id <= r[k + 1].id
            /\ c = chat_max_id => r = << >>
            /\ c = 0 => r = chat_messages

\* C6's case: past the cap, a fetch from a cursor inside the retained ids
\* returned some of the retained messages and not all of them.
C6_PartialFetchPastCap ==
    /\ chat_clock > CHAT_MAX_MESSAGES
    /\ chat_response.kind = "messages"
    /\ chat_response.last_id > 0
    /\ chat_response.count > 0
    /\ chat_response.count < Len(chat_messages)

\* ============================================================= Game state

\* bounds: cash a wander may bring the player up to, and the in-game day the
\* model plays up to; the calendar days it runs through
MaxMoney == 1500
MaxGameDay == 5
MaxCalendarDay == 2

\* class GameState: max_steps, lives, the damage that costs a life
MAX_STEPS == 7
INITIAL_LIVES == 3
DAMAGE_THRESHOLD == 30
BASE_HEALTH == 30

\* the drugs of the model, two of the six
DrugTypes == {"weed", "crack"}

\* The NPC roster: npcs.json is not part of the sources; two NPCs who deal
\* drugs stand for the roster, each alive and with a kilo of crack in stock
NpcIds == {"npc_a", "npc_b"}
NewNpc == [is_alive |-> TRUE, drugs |-> [d \in DrugTypes |-> IF d = "crack" THEN 1 ELSE 0]]

\* Config.INITIAL_LIVES and Config.DAMAGE_THRESHOLD of the earlier iteration
EARLY_INITIAL_LIVES == 5
EARLY_DAMAGE_THRESHOLD == 10
\* Config.MAX_STEPS_PER_DAY of the earlier iteration
EARLY_MAX_STEPS == 35

\* class GameState of the earlier iteration as session['game_state'] holds
\* it: money, account, loan, lives, damage, day, steps, max_steps,
\* current_mud_room; exists
\* is 'game_state' in session, page the page the latest request led to
NewEarlyGameState ==
    [exists |-> TRUE, money |-> 1000, account |-> 0, loan |-> 0,
     lives |-> EARLY_INITIAL_LIVES, damage |-> 0,
     day |-> 1, steps |-> 0, max_steps |-> EARLY_MAX_STEPS,
     current_mud_room |-> "entrance", page |-> "city"]

\* data['room'] of the duel events: one alleyway sub-room and one room that
\* is not part of the alleyway
PvpRooms == {"entrance", "city"}
\* no entry under that player id / no fight under that room
NoPlayer == [sid |-> ""]
NoPvpFight == [current_turn |-> ""]
\* players_in_rooms = {} and active_pvp_fights = {}; no challenge sent yet
NoPvp ==
    [players_in_rooms |-> [room \in PvpRooms |-> [p \in Sessions |-> NoPlayer]],
     active_pvp_fights |-> [room \in PvpRooms |-> NoPvpFight],
     challenges |-> {},
     pvp_fight_end |-> [room \in PvpRooms |-> NoPvpFight]]

\* GameState(): the fields the handlers below read or write.  Weapons, drugs
\* and flags are not among them.
NewGameState(player_name, gang_name) ==
    [player_name |-> player_name, gang_name |-> gang_name,
     money |-> 1000, account |-> 0, loan |-> 0, loan_days |-> 0,
     members |-> 1, day |-> 1, health |-> BASE_HEALTH, steps |-> 0,
     max_steps |-> MAX_STEPS, current_score |-> 0,
     lives |-> INITIAL_LIVES, damage |-> 0, vest |-> 0,
     pistols |-> 0, bullets |-> 0,
     drugs |-> [d \in DrugTypes |-> IF d = "crack" THEN 5 ELSE 0]]

\* @property max_health: 30 base + 10 HP per member beyond the first
max_health(g) == BASE_HEALTH + 10 * (g.members - 1)

\* save_game_state: update_current_score, then the session is written
save_game_state(g) ==
    [g EXCEPT !.current_score = calculate_score(g.money + g.account, g.day, 0, 0)]

\* process_daily_interest_and_loans: savings interest, loan interest, the
\* days the loan has run, the loan-shark check.  int(x * 0.08) is taken as
\* the floor of the exact product.
process_daily_interest_and_loans(g) ==
    LET rate == IF g.account >= 10000 THEN 10 ELSE IF g.account >= 5000 THEN 9 ELSE 8
        g1 == IF g.account > 0
              THEN [g EXCEPT !.account = @ + (g.account * rate) \div 100]
              ELSE g
        g2 == IF g1.loan > 0
              THEN [g1 EXCEPT !.loan = @ + (g1.loan * 15) \div 100,
                              !.loan_days = @ + 1]
              ELSE g1
        attack_threshold == IF g2.loan <= 50000 THEN 2 ELSE 3
    IN  [state |-> g2,
         loan_shark_attack |-> g2.loan > 0 /\ g2.loan_days >= attack_threshold]

\* ============================================================ Drug prices

\* The base prices of the drugs;
\* drug_config.json is not part of the sources, the prices are those of the
\* fallback table of get_game_state.
base_prices == [d \in DrugTypes |-> IF d = "weed" THEN 500 ELSE 1000]

\* The multipliers random.uniform draws for the drugs of one regeneration,
\* in percent: a bust of weed with a rush on crack, and the reverse.
Multipliers ==
    {[d \in DrugTypes |-> IF d = "weed" THEN 20 ELSE 500],
     [d \in DrugTypes |-> IF d = "weed" THEN 500 ELSE 20]}

\* new_prices[drug] = int(price * multiplier), for every draw
NewPriceTables ==
    {[d \in DrugTypes |-> (base_prices[d] * m[d]) \div 100] : m \in Multipliers}

\* last_update_day when the key is missing (.get gives None or '')
NoDay == 0

\* load_current_drug_prices when the file does not exist
DefaultPriceFile ==
    [prices |-> base_prices, last_update_day |-> NoDay, update_count |-> 0]

\* update_daily_drug_prices: load, replace the prices by the draw, save
\* (the alert strings and the last_update time string are left out)
update_daily_drug_prices(file, new_prices) == [file EXCEPT !.prices = new_prices]

\* update_global_drug_prices: nothing when the stamp is today's; else
\* regenerate, stamp, save
update_global_drug_prices(file, day, new_prices) ==
    IF file.last_update_day = day
    THEN file
    ELSE [update_daily_drug_prices(file, new_prices) EXCEPT !.last_update_day = day]

\* update_daily_high_scores: whether the session's keys let a commit through
DailyCommitDue(s, g) ==
    /\ g.player_name # "" /\ g.gang_name # ""
    /\ LET keys == hs_daily[s][<< g.player_name, g.gang_name >>]
       IN  keys.update # today \/ keys.day # g.day

\* update_daily_high_scores: what it leaves of the call and of the keys; the
\* commit it starts is finished by HsCommitSave
DailyCall(s, g) ==
    IF DailyCommitDue(s, g)
    THEN LoadedCall(high_scores, g.player_name, g.gang_name, g.money + g.account,
                    g.day, 0, 0)
    ELSE hs_call[s]

DailyKeys(s, g) ==
    IF DailyCommitDue(s, g)
    THEN [hs_daily[s] EXCEPT ![<< g.player_name, g.gang_name >>] =
             [update |-> today, day |-> g.day]]
    ELSE hs_daily[s]

\* a page request: its route, whether it regenerated the prices, the prices
\* of the file before it and the ones it drew (the old ones when it drew none)
Request(route, regenerated, new_prices) ==
    [route |-> route, regenerated |-> regenerated,
     prices_before |-> price_file.prices,
     new_prices |-> IF regenerated THEN new_prices ELSE price_file.prices]

NoFight == [outcome |-> "none"]

\* no loan taken, no bank or shop request made, no day ended, no fight page
\* (and so no combat id) given to the session; combat is "open" from the
\* fight page on and "resolved" once a fight action has ended the fight
NoLedger ==
    [loan_taken |-> 0, encounters |-> 0, bank_requests |-> 0, last |-> [kind |-> "none"],
     combat |-> "none"]

PriceInit ==
    /\ price_file = DefaultPriceFile
    /\ today = 1
    /\ price_regen_day = NoDay
    /\ last_request = [route |-> "none"]

GameInit ==
    /\ gs = [s \in Sessions |-> NewGameState("", "")]
    /\ hs_daily = [s \in Sessions |-> [pr \in NamedPairs |-> [update |-> NoDay, day |-> 0]]]
    /\ last_fight = NoFight
    /\ alley_room = [s \in Sessions |-> "entrance"]
    /\ ledger = [s \in Sessions |-> NoLedger]
    /\ npcs_data = [n \in NpcIds |-> NewNpc]
    /\ early_gs = [s \in Sessions |-> NewEarlyGameState]
    /\ pvp = NoPvp

\* the calendar day changes
Midnight ==
    /\ today < MaxCalendarDay
    /\ today' = today + 1
    /\ last_request' = [route |-> "none"]
    /\ UNCHANGED world_vars
    /\ UNCHANGED << price_file, price_regen_day, hs_vars, chat_vars, game_vars >>

\* POST /new_game with both names filled in: a fresh GameState
NewGame(s, player_name, gang_name) ==
    /\ hs_call[s].pc = "idle"
    /\ player_name # "" /\ gang_name # ""
    /\ gs' = [gs EXCEPT ![s] = [NewGameState(player_name, gang_name) EXCEPT
                                   !.pistols = 1, !.bullets = 10]]
    /\ last_request' = [route |-> "new_game"]
    /\ last_fight' = NoFight
    /\ ledger' = [ledger EXCEPT ![s] = NoLedger]
    /\ UNCHANGED world_vars
    /\ UNCHANGED << hs_daily, alley_room, price_file, today, price_regen_day, hs_vars,
                    chat_vars >>

\* GET /city: update_global_drug_prices, update_daily_high_scores,
\* save_game_state
City(s, new_prices) ==
    /\ hs_call[s].pc = "idle"
    /\ DailyCommitDue(s, gs[s]) => hs_started < MaxCommits
    /\ price_file' = update_global_drug_prices(price_file, today, new_prices)
    /\ price_regen_day' = IF price_file.last_update_day = today
                          THEN price_regen_day ELSE today
    /\ last_request' = Request("city", price_file.last_update_day # today, new_prices)
    /\ hs_call' = [hs_call EXCEPT ![s] = DailyCall(s, gs[s])]
    /\ hs_started' = IF DailyCommitDue(s, gs[s]) THEN hs_started + 1 ELSE hs_started
    /\ hs_daily' = [hs_daily EXCEPT ![s] = DailyKeys(s, gs[s])]
    /\ gs' = [gs EXCEPT ![s] = save_game_state(gs[s])]
    /\ UNCHANGED world_vars
    /\ UNCHANGED << today, high_scores, hs_initial, hs_best, chat_vars, last_fight,
                    alley_room, ledger >>

\* GET /bar: on the first visit of a calendar day the stored count goes up;
\* at 2 it is reset and update_global_drug_prices is called; then the dict
\* loaded at the top of the handler is saved with the count and the stamp
Bar(s, new_prices) ==
    /\ hs_call[s].pc = "idle"
    /\ LET current_prices_data == price_file
           first_today == current_prices_data.last_update_day # today
           refresh == first_today /\ current_prices_data.update_count + 1 >= 2
           new_update_count == IF refresh THEN 0
                               ELSE current_prices_data.update_count + 1
       IN  /\ price_file' =
                  IF first_today
                  THEN [current_prices_data EXCEPT !.update_count = new_update_count,
                                                   !.last_update_day = today]
                  ELSE price_file
           /\ price_regen_day' = IF refresh THEN today ELSE price_regen_day
           /\ last_request' = Request("bar", refresh, new_prices)
    /\ UNCHANGED world_vars
    /\ UNCHANGED << today, hs_vars, chat_vars, game_vars >>

\* What a wander runs into.  The fights (a police chase, rival gang
\* members, muggers when $1000 or more is carried, a Squidie hit squad when
\* less is carried and the gang has 3 members) save the state and open the
\* fight page; the step is not counted.
WanderFights == {"police_chase", "gang_fight", "muggers", "squidie_squad"}
\* The others go on to the step count: the baby momma, nothing at all (a
\* fake ID shown, no mugging, no hit squad, an uneventful result), and the
\* regular results that pay cash, heal or hurt.
WanderEvents == WanderFights \cup {"baby_momma", "nothing", "cash", "rest", "hurt"}

\* the amounts random.randint draws for the cash results: the ends of
\* 500..1000 and of 300..800
CashFound == {300, 500, 800, 1000}

EventPossible(g, event) ==
    CASE event = "muggers" -> g.money >= 1000
      [] event = "squidie_squad" -> g.money < 1000 /\ g.members >= 3
      [] event \in {"cash", "rest", "hurt"} -> g.money < 1000 /\ g.members < 3
      [] OTHER -> TRUE

\* the event's effect on the GameState
WanderEffect(g, event, cash_found) ==
    CASE event = "baby_momma" ->
             IF g.money >= 200 THEN [g EXCEPT !.money = @ - 200]
             ELSE IF g.money >= 100 THEN [g EXCEPT !.money = @ - 100]
             ELSE [g EXCEPT !.health = Max(0, @ - 10)]
      [] event = "cash" -> [g EXCEPT !.money = @ + cash_found]
      [] event = "rest" -> [g EXCEPT !.health = Min(max_health(g), @ + 10)]
      [] event = "hurt" -> [g EXCEPT !.health = Max(0, @ - 5)]
      [] OTHER -> g

\* wander from "game_state.steps += 1" to the loan-shark check: the state,
\* whether the in-game day ended, whether the loan sharks come
WanderDay(g, event, cash_found) ==
    LET g1 == [WanderEffect(g, event, cash_found) EXCEPT !.steps = @ + 1]
        day_ends == g1.steps >= g1.max_steps
        daily == process_daily_interest_and_loans([g1 EXCEPT !.day = @ + 1, !.steps = 0])
    IN  [state |-> IF day_ends THEN daily.state ELSE g1,
         day_ends |-> day_ends,
         loan_shark_attack |-> day_ends /\ daily.loan_shark_attack]

\* what a request that may have ended the in-game day leaves in the ledger
DayEndLedger(l, route, before, after, attack) ==
    IF after.day = before.day
    THEN l
    ELSE [l EXCEPT !.encounters = IF attack THEN @ + 1 ELSE @,
                   !.last = [kind |-> "day_end", route |-> route, attack |-> attack,
                             loan_taken |-> l.loan_taken,
                             loan_days |-> after.loan_days]]

\* GET /wander
Wander(s, event, cash_found, new_prices) ==
    /\ hs_call[s].pc = "idle"
    /\ EventPossible(gs[s], event)
    /\ event = "cash" => gs[s].money + cash_found <= MaxMoney
    /\ gs[s].day < MaxGameDay \/ gs[s].steps + 1 < gs[s].max_steps
    /\ LET wd == WanderDay(gs[s], event, cash_found)
           g2 == wd.state
           refresh == wd.day_ends /\ ~wd.loan_shark_attack
       IN  IF event \in WanderFights
           THEN /\ gs' = [gs EXCEPT ![s] = save_game_state(gs[s])]
                /\ last_request' = Request("wander", FALSE, new_prices)
                /\ UNCHANGED << price_file, price_regen_day, hs_daily, hs_vars >>
           ELSE /\ refresh /\ DailyCommitDue(s, g2) => hs_started < MaxCommits
                /\ gs' = [gs EXCEPT ![s] = save_game_state(g2)]
                /\ price_file' = IF refresh
                                 THEN update_daily_drug_prices(price_file, new_prices)
                                 ELSE price_file
                /\ price_regen_day' = IF refresh THEN today ELSE price_regen_day
                /\ last_request' = Request("wander", refresh, new_prices)
                /\ hs_call' = IF refresh
                              THEN [hs_call EXCEPT ![s] = DailyCall(s, g2)]
                              ELSE hs_call
                /\ hs_started' = IF refresh /\ DailyCommitDue(s, g2)
                                 THEN hs_started + 1 ELSE hs_started
                /\ hs_daily' = IF refresh
                               THEN [hs_daily EXCEPT ![s] = DailyKeys(s, g2)]
                               ELSE hs_daily
                /\ UNCHANGED << high_scores, hs_initial, hs_best >>
    /\ last_fight' = NoFight
    /\ ledger' = [ledger EXCEPT ![s] =
                     IF event \in WanderFights THEN @
                     ELSE DayEndLedger(@, "wander", gs[s], gs'[s],
                                       WanderDay(gs[s], event, cash_found).loan_shark_attack)]
    /\ UNCHANGED world_vars
    /\ UNCHANGED << today, alley_room, chat_vars >>

\* the price file's requests, by sessions that play under no name (the
\* default GameState): city and bar visits, wanders, the days going by
PriceNext ==
    \/ Midnight
    \/ \E s \in Sessions, np \in NewPriceTables : City(s, np)
    \/ \E s \in Sessions, np \in NewPriceTables : Bar(s, np)
    \/ \E s \in Sessions, e \in {"nothing", "police_chase"}, np \in NewPriceTables :
           Wander(s, e, 0, np)

\* ===================================================================== Bank

\* bound: the bank and shop requests one session makes in a game
MaxBankRequests == 2

\* the amounts posted: nothing, small change, more than the starting cash,
\* and loans of the menu below, at and above the $50,000 mark
BankAmounts == {0, 500, 2000, 5000, 50000, 100000}
BankActions == {"deposit", "withdraw", "loan", "pay_loan"}

\* loan_options, with the 500,000 tier for gangs of 10 and more
loan_options(g) ==
    {5000, 10000, 25000, 50000, 100000} \cup (IF g.members >= 10 THEN {500000} ELSE {})
max_loan(g) == IF g.members >= 10 THEN 500000 ELSE 100000

\* action == 'deposit'
bank_deposit(g, amount) ==
    IF amount <= 0 \/ amount > g.money THEN g
    ELSE [g EXCEPT !.money = @ - amount, !.account = @ + amount]

\* action == 'withdraw'
bank_withdraw(g, amount) ==
    IF amount <= 0 \/ amount > g.account THEN g
    ELSE [g EXCEPT !.account = @ - amount, !.money = @ + amount]

\* action == 'loan'
bank_loan(g, amount) ==
    IF amount \notin loan_options(g) \/ amount > max_loan(g) \/ g.loan > 0 THEN g
    ELSE [g EXCEPT !.loan = amount, !.loan_days = 0, !.money = @ + amount]

\* action == 'pay_loan'
bank_pay_loan(g, amount) ==
    IF amount <= 0 \/ amount > g.money \/ amount > g.loan THEN g
    ELSE [g EXCEPT !.money = @ - amount, !.loan = Max(0, @ - amount)]

bank_transaction(g, action, amount) ==
    CASE action = "deposit" -> bank_deposit(g, amount)
      [] action = "withdraw" -> bank_withdraw(g, amount)
      [] action = "loan" -> bank_loan(g, amount)
      [] action = "pay_loan" -> bank_pay_loan(g, amount)
      [] OTHER -> g

\* the ledger after a bank request: the loan just granted, or paid off
BankLedger(l, before, after, action, amount) ==
    [l EXCEPT !.loan_taken = IF action = "loan" /\ after.loan # before.loan THEN amount
                             ELSE IF after.loan = 0 THEN 0 ELSE @,
              !.encounters = IF after.loan = 0 \/ (action = "loan" /\ after.loan # before.loan)
                             THEN 0 ELSE @,
              !.bank_requests = @ + 1,
              !.last = [kind |-> "bank", action |-> action, amount |-> amount,
                        before |-> before]]

\* POST /bank_transaction
BankTransaction(s, action, amount) ==
    /\ hs_call[s].pc = "idle"
    /\ ledger[s].bank_requests < MaxBankRequests
    /\ LET g == bank_transaction(gs[s], action, amount)
       IN  /\ gs' = [gs EXCEPT ![s] = save_game_state(g)]
           /\ ledger' = [ledger EXCEPT ![s] = BankLedger(@, gs[s], g, action, amount)]
    /\ UNCHANGED world_vars
    /\ UNCHANGED << hs_daily, last_fight, alley_room, hs_vars, chat_vars, price_vars >>

\* the player the bank and the alleyway specifications follow
Players == {"s1"}

\* one player's bank requests and the in-game days going by
BankNext ==
    \/ \E s \in Players, a \in BankActions, n \in BankAmounts : BankTransaction(s, a, n)
    \/ \E s \in Players, np \in NewPriceTables : Wander(s, "nothing", 0, np)

\* ------------------------------------------------------- bank: properties

\* C12: a loan left unpaid triggers exactly one loan-shark encounter: after
\* the day-end that first triggers it, later day-ends with the same loan
\* still unpaid trigger no other.
C12_OneLoanSharkEncounter ==
    \A s \in Sessions : ledger[s].encounters <= 1

\* C13: the loan-shark encounter is first triggered at the day-end at which
\* the loan has been outstanding 2 days when the loan taken was at most
\* $50,000 and 3 days when it was larger, and never earlier.
C13_FirstEncounterOnTime ==
    \A s \in Sessions :
        LET last == ledger[s].last
        IN  (last.kind = "day_end" /\ last.loan_taken > 0)
                => LET due == IF last.loan_taken <= 50000 THEN 2 ELSE 3
                   IN  /\ last.loan_days < due => ~last.attack
                       /\ last.loan_days = due => last.attack

\* ------------------------------------------- the bank, earlier iteration

\* bound: the debt up to which the model follows the earlier iteration
MaxEarlyLoan == 10000

\* amounts posted to the earlier iteration's bank
EarlyBankAmounts == {5000, 20000}

\* bank_transaction of the earlier iteration
early_bank_transaction(g, action, amount) ==
    CASE action = "deposit" ->
             IF g.money >= amount
             THEN [g EXCEPT !.money = @ - amount, !.account = @ + amount]
             ELSE g
      [] action = "withdraw" ->
             IF g.account >= amount
             THEN [g EXCEPT !.account = @ - amount, !.money = @ + amount]
             ELSE g
      [] action = "loan" ->
             IF amount <= 10000
             THEN [g EXCEPT !.loan = @ + amount, !.money = @ + amount]
             ELSE g
      [] action = "pay_loan" ->
             IF g.money >= amount
             THEN [g EXCEPT !.money = @ - amount, !.loan = Max(0, @ - amount)]
             ELSE g
      [] OTHER -> g

\* POST /bank_transaction, earlier iteration
EarlyBankTransaction(s, action, amount) ==
    /\ early_gs[s].exists
    /\ LET g == early_bank_transaction(early_gs[s], action, amount)
       IN  /\ g.loan <= MaxEarlyLoan
           /\ early_gs' = [early_gs EXCEPT ![s] = g]
    /\ UNCHANGED << npcs_data, pvp, hs_vars, chat_vars, price_vars, game_vars >>

\* one player at the bank of either iteration
LoanNext ==
    \/ \E s \in Players, a \in BankActions, amount \in BankAmounts :
           BankTransaction(s, a, amount)
    \/ \E s \in Players, a \in BankActions, amount \in EarlyBankAmounts :
           EarlyBankTransaction(s, a, amount)

\* C15: only one loan is outstanding at a time: while the loan is above
\* zero no bank request raises it (a loan request then is rejected and
\* leaves the loan, the cash and the days-since-loan counter as they were).
C15_OneOutstandingLoan ==
    [][\A s \in Sessions :
          /\ gs[s].loan > 0 /\ gs'[s].loan # gs[s].loan
                => /\ gs'[s].loan < gs[s].loan
                   /\ gs'[s].loan_days = gs[s].loan_days
          /\ early_gs[s].loan > 0 => early_gs'[s].loan <= early_gs[s].loan]_vars

\* ================================================================== Shops

\* bound: the gang's size the recruits may bring it to
MaxMembers == 2

\* drug_type / item_type as posted: the drugs, and one no price table holds
TradeItems == DrugTypes \cup {"bogus"}
\* quantity as posted: int() takes any integer
Quantities == {-1, 0, 1, 6}

\* trade_drugs, past the check of drug_type
trade_drugs(g, price, action, drug_type, quantity, recruit) ==
    CASE action = "buy" ->
             LET cost == price * quantity
             IN  IF g.money >= cost
                 THEN [g EXCEPT !.money = @ - cost, !.drugs[drug_type] = @ + quantity]
                 ELSE g
      [] action = "sell" ->
             LET current_qty == g.drugs[drug_type]
                 revenue == price * quantity
                 g1 == [g EXCEPT !.drugs[drug_type] = current_qty - quantity,
                                 !.money = @ + revenue]
                 g2 == [g1 EXCEPT !.members = @ + 1]
             IN  IF current_qty >= quantity
                 THEN IF revenue >= 5000 /\ recruit
                      THEN [g2 EXCEPT !.health = Min(max_health(g2), @ + 10)]
                      ELSE g1
                 ELSE g
      [] OTHER -> g

\* int(price * 1.5) and int(price * 0.5)
npc_sell_price(price) == (price * 3) \div 2
npc_buy_price(price) == price \div 2

\* npc_trade_action, past the check of item_type: the GameState and the
\* NPC after the trade; done is false where the handler returns early
npc_trade(g, npc, price, action, item_type, quantity) ==
    CASE action = "buy" ->
             LET npc_amount == npc.drugs[item_type]
                 total_cost == npc_sell_price(price) * quantity
             IN  IF npc_amount < quantity \/ g.money < total_cost
                 THEN [state |-> g, npc |-> npc, done |-> FALSE]
                 ELSE [state |-> [g EXCEPT !.money = @ - total_cost,
                                           !.drugs[item_type] = @ + quantity],
                       npc |-> [npc EXCEPT !.drugs[item_type] = npc_amount - quantity],
                       done |-> TRUE]
      [] action = "sell" ->
             LET current_qty == g.drugs[item_type]
                 total_revenue == npc_buy_price(price) * quantity
             IN  IF current_qty < quantity
                 THEN [state |-> g, npc |-> npc, done |-> FALSE]
                 ELSE [state |-> [g EXCEPT !.money = @ + total_revenue,
                                           !.drugs[item_type] = current_qty - quantity],
                       npc |-> [npc EXCEPT !.drugs[item_type] = @ + quantity],
                       done |-> TRUE]
      [] OTHER -> [state |-> g, npc |-> npc, done |-> TRUE]

\* weapon_prices, three of the thirteen
weapon_prices == [pistol |-> 1200, bullets |-> 100, vest_light |-> 5000]
WeaponTypes == DOMAIN weapon_prices \cup {"bogus"}

\* "Add weapon to inventory"
add_weapon(g, weapon_type, quantity) ==
    CASE weapon_type = "pistol" -> [g EXCEPT !.pistols = @ + quantity]
      [] weapon_type = "bullets" -> [g EXCEPT !.bullets = @ + quantity * 50]
      [] weapon_type = "vest_light" -> [g EXCEPT !.vest = @ + 5]
      [] OTHER -> g

\* buy_weapon past the check of weapon_type, with no check of the cash
BuyWeaponOnCredit(g, weapon_type, quantity) ==
    LET total_cost == weapon_prices[weapon_type] * quantity
    IN  [state |-> add_weapon([g EXCEPT !.money = @ - total_cost], weapon_type, quantity),
         paid |-> TRUE]
\* buy_weapon past the check of weapon_type; paid is false where the
\* handler returns without saving
buy_weapon(g, weapon_type, quantity) ==
    LET total_cost == weapon_prices[weapon_type] * quantity
    IN  IF g.money < total_cost
        THEN [state |-> g, paid |-> FALSE]
        ELSE [state |-> add_weapon([g EXCEPT !.money = @ - total_cost], weapon_type,
                                   quantity),
              paid |-> TRUE]

\* a shop request in the ledger, counted with the bank requests: what was
\* asked, at what unit price, and the GameState it found
ShopLedger(l, kind, action, item, quantity, price, before) ==
    [l EXCEPT !.bank_requests = @ + 1,
              !.last = [kind |-> kind, action |-> action, item |-> item,
                        amount |-> quantity, price |-> price, before |-> before]]

\* a request that names something unknown: redirect is the page it is sent to
InvalidLedger(l, redirect, action, item, quantity, before) ==
    [l EXCEPT !.bank_requests = @ + 1,
              !.last = [kind |-> "invalid", action |-> action, item |-> item,
                        amount |-> quantity, price |-> 0, before |-> before,
                        redirect |-> redirect]]

ShopReady(s) ==
    /\ hs_call[s].pc = "idle"
    /\ ledger[s].bank_requests < MaxBankRequests

\* POST /trade_drugs
TradeDrugs(s, action, drug_type, quantity, recruit) ==
    /\ ShopReady(s)
    /\ IF drug_type \notin DOMAIN price_file.prices
       THEN /\ gs' = gs
            /\ ledger' = [ledger EXCEPT ![s] =
                             InvalidLedger(@, "crackhouse", action, drug_type, quantity, gs[s])]
       ELSE LET price == price_file.prices[drug_type]
                g == trade_drugs(gs[s], price, action, drug_type, quantity, recruit)
            IN  /\ g.members <= MaxMembers
                /\ gs' = [gs EXCEPT ![s] = save_game_state(g)]
                /\ ledger' = [ledger EXCEPT ![s] =
                                 ShopLedger(@, "trade_drugs", action, drug_type, quantity,
                                            price, gs[s])]
    /\ UNCHANGED << hs_daily, last_fight, alley_room, npcs_data, early_gs, pvp,
                    hs_vars, chat_vars, price_vars >>

\* int(): the integer a form field's text stands for; a text outside the
\* table is one int() raises ValueError for
int == [t \in {"-1", "0", "1", "6"} |->
           CASE t = "-1" -> -1 [] t = "0" -> 0 [] t = "1" -> 1 [] t = "6" -> 6]
\* the quantity field as posted
QuantityTexts == DOMAIN int \cup {"abc", ""}

\* POST /trade_drugs from the form's text on: int() comes first, and what it
\* raises no handler catches: the request ends in a server error
TradeDrugsForm(s, action, drug_type, quantity_text, recruit) ==
    IF quantity_text \in DOMAIN int
    THEN TradeDrugs(s, action, drug_type, int[quantity_text], recruit)
    ELSE /\ hs_call[s].pc = "idle"
         /\ ledger' = [ledger EXCEPT ![s].last = [kind |-> "error", route |-> "trade_drugs"]]
         /\ UNCHANGED << gs, hs_daily, last_fight, alley_room, world_vars,
                         hs_vars, chat_vars, price_vars >>

\* POST /npc_trade_action/<npc_id>; npcs_data is changed in place and
\* written to npcs.json
NpcTradeAction(s, npc_id, action, item_type, quantity) ==
    /\ ShopReady(s)
    /\ IF npc_id \notin DOMAIN npcs_data
       THEN /\ UNCHANGED << gs, npcs_data >>
            /\ ledger' = [ledger EXCEPT ![s] =
                             InvalidLedger(@, "city", action, npc_id, quantity, gs[s])]
       ELSE IF action \in {"buy", "sell"} /\ item_type \notin DOMAIN price_file.prices
       THEN /\ UNCHANGED << gs, npcs_data >>
            /\ ledger' = [ledger EXCEPT ![s] =
                             InvalidLedger(@, "trade_with_npc", action, item_type, quantity,
                                           gs[s])]
       ELSE LET price == price_file.prices[item_type]
                t == npc_trade(gs[s], npcs_data[npc_id], price, action, item_type, quantity)
            IN  /\ gs' = IF t.done THEN [gs EXCEPT ![s] = save_game_state(t.state)] ELSE gs
                /\ npcs_data' = [npcs_data EXCEPT ![npc_id] = t.npc]
                /\ ledger' = [ledger EXCEPT ![s] =
                                 ShopLedger(@, "npc_trade_action", action, item_type, quantity,
                                            IF action = "buy" THEN npc_sell_price(price)
                                            ELSE npc_buy_price(price), gs[s])]
    /\ UNCHANGED << hs_daily, last_fight, alley_room, early_gs, pvp,
                    hs_vars, chat_vars, price_vars >>

\* POST /buy_weapon
BuyWeapon(s, weapon_type, quantity) ==
    /\ ShopReady(s)
    /\ IF weapon_type \notin DOMAIN weapon_prices
       THEN /\ gs' = gs
            /\ ledger' = [ledger EXCEPT ![s] =
                             InvalidLedger(@, "gunshack", "buy", weapon_type, quantity, gs[s])]
       ELSE LET b == buy_weapon(gs[s], weapon_type, quantity)
            IN  /\ gs' = IF b.paid THEN [gs EXCEPT ![s] = save_game_state(b.state)] ELSE gs
                /\ ledger' = [ledger EXCEPT ![s] =
                                 ShopLedger(@, "buy_weapon", "buy", weapon_type, quantity,
                                            weapon_prices[weapon_type], gs[s])]
    /\ UNCHANGED << hs_daily, last_fight, alley_room, npcs_data, early_gs, pvp,
                    hs_vars, chat_vars, price_vars >>

\* one player at the crack house, with an NPC, at the gun shack and at the
\* bank
ShopNext ==
    \/ \E s \in Players, a \in {"buy", "sell"}, d \in TradeItems, q \in Quantities,
          recruit \in BOOLEAN : TradeDrugs(s, a, d, q, recruit)
    \/ \E s \in Players, n \in NpcIds \cup {"nobody"}, a \in {"buy", "sell"},
          d \in TradeItems, q \in Quantities : NpcTradeAction(s, n, a, d, q)
    \/ \E s \in Players, w \in WeaponTypes, q \in Quantities : BuyWeapon(s, w, q)
    \/ \E s \in Players, a \in BankActions, amount \in {500, 5000, 50000} :
           BankTransaction(s, a, amount)

\* ------------------------------------------------------ shops: properties

\* C32: a request that names an unknown NPC id, an unknown drug type or an
\* unknown weapon type is answered with a redirect to the city hub and
\* leaves the game state and the shared NPC roster unchanged.
C32_UnknownNameRedirectsToCity ==
    [][\A s \in Sessions :
          (ledger'[s] # ledger[s] /\ ledger'[s].last.kind = "invalid")
              => /\ ledger'[s].last.redirect = "city"
                 /\ gs' = gs
                 /\ npcs_data' = npcs_data]_vars

\* C16: every drug count is non-negative in every reachable state, and a
\* request that sells a drug never leaves the player with more of it.
C16_DrugCountsNonNegative ==
    \A s \in Sessions :
       /\ \A d \in DrugTypes : gs[s].drugs[d] >= 0
       /\ LET r == ledger[s].last
          IN  r.kind \in {"trade_drugs", "npc_trade_action"} /\ r.action = "sell"
                 => gs[s].drugs[r.item] <= r.before.drugs[r.item]

\* the request fails its affordability check: the cash is below the total
\* cost, less of the drug is held than is sold, or the amount is above the
\* cash, the savings or the loan it is taken from
FailsAffordability(r) ==
    CASE r.kind \in {"trade_drugs", "npc_trade_action"} ->
             \/ r.action = "buy" /\ r.before.money < r.price * r.amount
             \/ r.action = "sell" /\ r.amount > r.before.drugs[r.item]
      [] r.kind = "buy_weapon" -> r.before.money < r.price * r.amount
      [] r.kind = "bank" ->
             \/ r.action = "deposit" /\ r.amount > r.before.money
             \/ r.action = "withdraw" /\ r.amount > r.before.account
             \/ r.action = "pay_loan"
                   /\ (r.amount > r.before.money \/ r.amount > r.before.loan)
      [] OTHER -> FALSE

SameHoldings(a, b) ==
    /\ a.money = b.money /\ a.account = b.account /\ a.loan = b.loan
    /\ a.drugs = b.drugs
    /\ a.pistols = b.pistols /\ a.bullets = b.bullets /\ a.vest = b.vest

\* C17: a bank or shop request that fails its affordability check leaves
\* the money, the savings, the loan, the drug counts and the weapon counts
\* as it found them.  (Every request of this specification enters itself in
\* the ledger, so gs[s] is the state the latest request left.)
C17_FailedCheckChangesNothing ==
    \A s \in Sessions :
       FailsAffordability(ledger[s].last) => SameHoldings(ledger[s].last.before, gs[s])

\* a pistol the player could not pay, asked for after a request that
\* changed the cash
C17_UnaffordablePistolRefused ==
    \E s \in Sessions :
       LET r == ledger[s].last
       IN  /\ r.kind = "buy_weapon" /\ r.item = "pistol" /\ r.amount > 0
           /\ FailsAffordability(r)
           /\ r.before.money # 1000

\* ================================================================= Alleyway

\* bounds: the bullets and the kilos of one drug a search may bring the
\* player up to
MaxBullets == 10
MaxKilos == 7

\* bound: the in-game day up to which the model follows the alleyway
MaxAlleyDay == 2

\* move_room: the exits of the rooms, direction -> room
RoomExits ==
    [entrance |-> [north |-> "dead_end", south |-> "city", east |-> "side_street",
                   west |-> "dumpster"],
     dead_end |-> [south |-> "entrance"],
     side_street |-> [west |-> "entrance", north |-> "hidden_entrance",
                      east |-> "abandoned_building"],
     dumpster |-> [east |-> "entrance", north |-> "maintenance_shaft"],
     hidden_entrance |-> [south |-> "side_street", down |-> "underground",
                          east |-> "sewer_entrance"],
     underground |-> [up |-> "hidden_entrance", north |-> "secret_room",
                      east |-> "underground_market"],
     secret_room |-> [south |-> "underground", west |-> "storage_room"],
     abandoned_building |-> [west |-> "side_street", up |-> "rooftop_access",
                             north |-> "old_warehouse"],
     sewer_entrance |-> [west |-> "hidden_entrance", down |-> "sewer_tunnels"],
     rooftop_access |-> [down |-> "abandoned_building"],
     underground_market |-> [west |-> "underground", north |-> "hidden_lab"],
     storage_room |-> [east |-> "secret_room"],
     maintenance_shaft |-> [south |-> "dumpster", up |-> "utility_room"],
     old_warehouse |-> [south |-> "abandoned_building"],
     sewer_tunnels |-> [up |-> "sewer_entrance", north |-> "flooded_chamber"],
     hidden_lab |-> [south |-> "underground_market"],
     utility_room |-> [down |-> "maintenance_shaft"],
     flooded_chamber |-> [south |-> "sewer_tunnels"]]

\* the directions of the exits, and one that no room has
Directions == {"north", "south", "east", "west", "up", "down", "sideways"}

\* search_room: the rooms whose title holds "secret" or "hidden" (no
\* description holds "mysterious")
SearchableRooms == {"hidden_entrance", "secret_room", "hidden_lab"}

\* search_room: what a search of the room may turn up, each find at the low
\* end of its random.randint range
SearchFinds(room) ==
    CASE room = "secret_room" ->
             {[kind |-> "trap", n |-> 15, drug |-> ""],
              [kind |-> "bullets", n |-> 10, drug |-> ""],
              [kind |-> "drugs", n |-> 2, drug |-> "weed"],
              [kind |-> "drugs", n |-> 2, drug |-> "crack"],
              [kind |-> "money", n |-> 200, drug |-> ""],
              [kind |-> "nothing", n |-> 0, drug |-> ""]}
      [] room = "hidden_entrance" ->
             {[kind |-> "trap", n |-> 10, drug |-> ""],
              [kind |-> "money", n |-> 50, drug |-> ""],
              [kind |-> "bullets", n |-> 5, drug |-> ""],
              [kind |-> "nothing", n |-> 0, drug |-> ""]}
      [] OTHER ->
             {[kind |-> "trap", n |-> 5, drug |-> ""],
              [kind |-> "money", n |-> 25, drug |-> ""],
              [kind |-> "nothing", n |-> 0, drug |-> ""]}

SearchEffect(g, find) ==
    CASE find.kind = "trap" -> [g EXCEPT !.health = Max(0, @ - find.n)]
      [] find.kind = "bullets" -> [g EXCEPT !.bullets = @ + find.n]
      [] find.kind = "drugs" -> [g EXCEPT !.drugs[find.drug] = @ + find.n]
      [] find.kind = "money" -> [g EXCEPT !.money = @ + find.n]
      [] OTHER -> g

\* "Increment steps": the step is counted and at max_steps the day goes up
StepTaken(g) ==
    IF g.steps + 1 >= g.max_steps
    THEN [g EXCEPT !.day = @ + 1, !.steps = 0]
    ELSE [g EXCEPT !.steps = @ + 1]

\* the model follows the alleyway up to the end of day MaxAlleyDay
StepAllowed(g) == g.day < MaxAlleyDay \/ g.steps + 1 < g.max_steps

\* GET /move_room/<direction>.  The exit to the city resets the room and
\* returns; an NPC met in the alleyway opens the fight page before the
\* GameState is saved.
MoveRoom(s, direction, npc_met) ==
    /\ hs_call[s].pc = "idle"
    /\ StepAllowed(gs[s])
    /\ LET current_room_id == alley_room[s]
           has_exit == direction \in DOMAIN RoomExits[current_room_id]
           next_room == IF has_exit THEN RoomExits[current_room_id][direction]
                        ELSE current_room_id
           g == StepTaken(gs[s])
       IN  IF next_room = "city"
           THEN /\ alley_room' = [alley_room EXCEPT ![s] = "entrance"]
                /\ UNCHANGED << gs, ledger >>
           ELSE /\ alley_room' = [alley_room EXCEPT ![s] = next_room]
                /\ gs' = IF npc_met THEN gs ELSE [gs EXCEPT ![s] = save_game_state(g)]
                /\ ledger' = IF npc_met THEN ledger
                             ELSE [ledger EXCEPT ![s] =
                                      DayEndLedger(@, "move_room", gs[s], g, FALSE)]
    /\ UNCHANGED world_vars
    /\ UNCHANGED << hs_daily, last_fight, hs_vars, chat_vars, price_vars >>

\* GET /search_room
SearchRoom(s, find) ==
    /\ hs_call[s].pc = "idle"
    /\ StepAllowed(gs[s])
    /\ IF alley_room[s] \notin SearchableRooms
       THEN UNCHANGED << gs, ledger >>
       ELSE /\ find \in SearchFinds(alley_room[s])
            /\ find.kind = "money" => gs[s].money + find.n <= MaxMoney
            /\ find.kind = "bullets" => gs[s].bullets + find.n <= MaxBullets
            /\ find.kind = "drugs" => gs[s].drugs[find.drug] + find.n <= MaxKilos
            /\ LET g == StepTaken(SearchEffect(gs[s], find))
               IN  /\ gs' = [gs EXCEPT ![s] = save_game_state(g)]
                   /\ ledger' = [ledger EXCEPT ![s] =
                                    DayEndLedger(@, "search_room", gs[s], g, FALSE)]
    /\ UNCHANGED world_vars
    /\ UNCHANGED << hs_daily, last_fight, alley_room, hs_vars, chat_vars, price_vars >>

\* the finds of the alleyway walk below: traps, bullets and empty searches
AlleyFinds ==
    {f \in SearchFinds("secret_room") \cup SearchFinds("hidden_entrance")
            \cup SearchFinds("hidden_lab") : f.kind \in {"trap", "bullets", "nothing"}}

\* one player in the alleyway, with or without a loan
AlleyNext ==
    \/ \E s \in Players : BankTransaction(s, "loan", 5000)
    \/ \E s \in Players, d \in Directions, npc_met \in BOOLEAN : MoveRoom(s, d, npc_met)
    \/ \E s \in Players, f \in AlleyFinds : SearchRoom(s, f)

\* C14: every advance of the in-game day counter, whichever request caused
\* it, applies the bank's day-end processing: the loan interest is added and
\* the days-since-loan counter advances.
C14_DayAdvanceRunsDayEnd ==
    [][\A s \in Sessions :
          (gs'[s].day = gs[s].day + 1 /\ gs[s].loan > 0)
              => /\ gs'[s].loan = gs[s].loan + (gs[s].loan * 15) \div 100
                 /\ gs'[s].loan_days = gs[s].loan_days + 1]_vars

\* C27: a move request in a direction for which the current room has no
\* configured exit is a no-op: the stored room pointer, the step counter and
\* the day counter are unchanged.
C27_NoExitMoveIsNoOp ==
    [][\A s \in Sessions, d \in Directions, npc_met \in BOOLEAN :
          (MoveRoom(s, d, npc_met) /\ d \notin DOMAIN RoomExits[alley_room[s]])
              => /\ alley_room'[s] = alley_room[s]
                 /\ gs'[s].steps = gs[s].steps
                 /\ gs'[s].day = gs[s].day]_vars

\* C29: each move along a configured exit, the exit to the city and a move
\* that meets an NPC included, increases the persisted step counter by exactly
\* one; when the counter reaches the per-day cap the day counter increases by
\* exactly one and the step counter is reset to zero.
C29_MoveCountsOneStep ==
    [][\A s \in Sessions, d \in Directions, npc_met \in BOOLEAN :
          (MoveRoom(s, d, npc_met) /\ d \in DOMAIN RoomExits[alley_room[s]])
              => IF gs[s].steps + 1 >= gs[s].max_steps
                 THEN gs'[s].day = gs[s].day + 1 /\ gs'[s].steps = 0
                 ELSE gs'[s].day = gs[s].day /\ gs'[s].steps = gs[s].steps + 1]_vars

\* ------------------------------------- the alleyway, earlier iteration

\* bound: the steps up to which the model follows the earlier iteration
MaxEarlySteps == 36

\* get_current_room: the exits of the rooms table
rooms ==
    [entrance |-> [north |-> "alley1", south |-> "city", east |-> "alley_dead_end"],
     alley1 |-> [north |-> "alley2", south |-> "entrance", east |-> "side_street",
                 west |-> "abandoned_lot"],
     alley2 |-> [south |-> "alley1", west |-> "hidden_room", up |-> "rooftop",
                 north |-> "alley_fork"],
     alley_fork |-> [south |-> "alley2", northeast |-> "drug_den",
                     northwest |-> "back_alley"],
     drug_den |-> [southwest |-> "alley_fork", north |-> "crack_house_entrance"],
     crack_house_entrance |-> [south |-> "drug_den", inside |-> "crack_house_interior"],
     crack_house_interior |-> [outside |-> "crack_house_entrance",
                               upstairs |-> "crack_house_upstairs"],
     crack_house_upstairs |-> [downstairs |-> "crack_house_interior",
                               north |-> "rooftop_access"],
     back_alley |-> [southeast |-> "alley_fork", north |-> "dead_end_alley",
                     west |-> "service_entrance"],
     dead_end_alley |-> [south |-> "back_alley", down |-> "sewer_grate"],
     sewer_grate |-> [up |-> "dead_end_alley", down |-> "sewer_maintenance_tunnel"],
     sewer_maintenance_tunnel |-> [up |-> "sewer_grate", north |-> "sewer_flooded_chamber"],
     sewer_flooded_chamber |-> [south |-> "sewer_maintenance_tunnel",
                                north |-> "sewer_death_trap"],
     sewer_death_trap |-> << >>,
     service_entrance |-> [east |-> "back_alley", inside |-> "restaurant_kitchen"],
     restaurant_kitchen |-> [outside |-> "service_entrance", north |-> "restaurant_dining"],
     restaurant_dining |-> [south |-> "restaurant_kitchen", east |-> "alley_dead_end"],
     alley_dead_end |-> [west |-> "restaurant_dining", south |-> "entrance"],
     side_street |-> [west |-> "alley1", north |-> "burned_building"],
     hidden_room |-> [east |-> "alley2", down |-> "basement"],
     abandoned_lot |-> [east |-> "alley1", north |-> "construction_site"],
     construction_site |-> [south |-> "abandoned_lot", west |-> "burned_building"],
     burned_building |-> [south |-> "side_street", east |-> "construction_site",
                          inside |-> "building_interior"],
     building_interior |-> [outside |-> "burned_building"],
     rooftop |-> [down |-> "alley2", jump |-> "alley1"],
     rooftop_access |-> [down |-> "crack_house_upstairs"],
     basement |-> [up |-> "hidden_room", north |-> "sewer_entrance"],
     sewer_entrance |-> [south |-> "basement", down |-> "sewer_tunnel"],
     sewer_tunnel |-> [up |-> "sewer_entrance", north |-> "underground_chamber"],
     underground_chamber |-> [south |-> "sewer_tunnel"]]

\* a lookup that lets the player out of the death trap
RoomWithWayOut(room_id) ==
    IF room_id \in DOMAIN rooms \ {"sewer_death_trap"}
    THEN rooms[room_id] ELSE rooms["entrance"]
\* rooms.get(room_id, rooms['entrance']).exits
get_current_room(room_id) ==
    IF room_id \in DOMAIN rooms THEN rooms[room_id] ELSE rooms["entrance"]

\* <direction> of the URL: the directions of the table and one of none
EarlyDirections ==
    {"north", "south", "east", "west", "up", "down", "northeast", "northwest",
     "southeast", "southwest", "inside", "outside", "upstairs", "downstairs",
     "jump", "sideways"}

\* GET /move_room/<direction>, earlier iteration; encounter is the draw
\* random.random() * 100 < new_room.encounter_chance of a room that has one
EarlyMoveRoom(s, direction, encounter) ==
    /\ early_gs[s].steps < MaxEarlySteps
    /\ LET g == early_gs[s]
           exits == get_current_room(g.current_mud_room)
       IN  IF ~g.exists
           THEN early_gs' = [early_gs EXCEPT ![s].page = "index"]
           ELSE IF direction \in DOMAIN exits
           THEN LET new_room_id == exits[direction]
                    moved == [g EXCEPT !.current_mud_room = new_room_id,
                                       !.steps = @ + 1]
                IN  IF new_room_id = "sewer_death_trap"
                    THEN early_gs' = [early_gs EXCEPT ![s] =
                             [moved EXCEPT !.damage = EARLY_DAMAGE_THRESHOLD,
                                           !.lives = 0, !.page = "game_over"]]
                    ELSE early_gs' = [early_gs EXCEPT ![s] =
                             [moved EXCEPT !.page = IF encounter THEN "encounter"
                                                    ELSE "alleyway"]]
           ELSE early_gs' = [early_gs EXCEPT ![s].page = "alleyway"]
    /\ UNCHANGED << npcs_data, pvp, hs_vars, chat_vars, price_vars, game_vars >>

\* one player in the alleyway of the earlier iteration
EarlyAlleyNext ==
    \E s \in Players, d \in EarlyDirections, encounter \in BOOLEAN :
        EarlyMoveRoom(s, d, encounter)

\* C28: moving through the exit that targets the city resets the stored
\* room pointer to the entrance room, so the stored pointer always names a
\* room of the alleyway graph, in either iteration of the server.
C28_PointerNamesAlleywayRoom ==
    \A s \in Sessions :
        /\ alley_room[s] \in DOMAIN RoomExits
        /\ early_gs[s].current_mud_room \in DOMAIN rooms

\* C30: the sewer death trap is terminal: entering it sets the lives to zero
\* and the damage to the threshold and leads to the game-over page, and no
\* later move request takes the room pointer away from it.
C30_DeathTrapIsTerminal ==
    [][\A s \in Sessions, d \in EarlyDirections, encounter \in BOOLEAN :
          EarlyMoveRoom(s, d, encounter) =>
              /\ (early_gs[s].current_mud_room # "sewer_death_trap"
                  /\ early_gs'[s].current_mud_room = "sewer_death_trap")
                     => /\ early_gs'[s].lives = 0
                        /\ early_gs'[s].damage = EARLY_DAMAGE_THRESHOLD
                        /\ early_gs'[s].page = "game_over"
              /\ early_gs[s].current_mud_room = "sewer_death_trap"
                     => early_gs'[s].current_mud_room = "sewer_death_trap"]_vars

\* a player who died in the trap asked to move again and is still there
C30_MovedAgainInTheTrap ==
    \E s \in Sessions :
        /\ early_gs[s].current_mud_room = "sewer_death_trap"
        /\ early_gs[s].lives = 0
        /\ early_gs[s].page = "alleyway"

\* POST /new_game, earlier iteration
EarlyNewGame(s) ==
    /\ early_gs' = [early_gs EXCEPT ![s] = NewEarlyGameState]
    /\ UNCHANGED << npcs_data, pvp, hs_vars, chat_vars, price_vars, game_vars >>

\* ----------------------------------- the companions, earlier iteration

\* PROSTITUTES: price, healing_amount and death_risk of two of the five
PROSTITUTES ==
    [Candy |-> [price |-> 50, healing_amount |-> 2, death_risk |-> 5],
     Diamond |-> [price |-> 200, healing_amount |-> 6, death_risk |-> 25]]
\* prostitute_name of the form: the two, and a name no list holds
ProstituteNames == DOMAIN PROSTITUTES \cup {"Nobody"}
\* random.random() * 100, as far as the comparison with death_risk sees it
DeathRolls == {0, 10, 99}

\* a cure that does not stop at zero
HealedBelowZero(damage, healing_amount) == damage - healing_amount
\* max(0, game_state.damage - selected_prostitute.healing_amount)
healed(damage, healing_amount) == Max(0, damage - healing_amount)

\* POST /visit_prostitutes, no companion employed
EarlyVisitProstitutes(s, prostitute_name, death_roll) ==
    /\ LET g == early_gs[s]
       IN  IF ~g.exists
           THEN early_gs' = [early_gs EXCEPT ![s].page = "index"]
           ELSE IF prostitute_name \notin DOMAIN PROSTITUTES
           THEN early_gs' = [early_gs EXCEPT ![s].page = "crackhouse"]
           ELSE LET selected_prostitute == PROSTITUTES[prostitute_name]
                IN  IF ~(g.money >= selected_prostitute.price)
                    THEN early_gs' = [early_gs EXCEPT ![s].page = "wander_result"]
                    ELSE IF death_roll < selected_prostitute.death_risk
                    THEN early_gs' = [early_gs EXCEPT ![s] =
                             [NewEarlyGameState EXCEPT !.exists = FALSE,
                                                       !.page = "wander_result"]]
                    ELSE early_gs' = [early_gs EXCEPT ![s] =
                             [g EXCEPT !.money = @ - selected_prostitute.price,
                                       !.damage = healed(@, selected_prostitute.healing_amount),
                                       !.page = "wander_result"]]
    /\ UNCHANGED << npcs_data, pvp, hs_vars, chat_vars, price_vars, game_vars >>

\* one player between the sewer, where the damage comes from, and the
\* companions
CompanionNext ==
    \/ \E s \in Players : EarlyNewGame(s)
    \/ \E s \in Players, d \in {"north", "northwest", "down"} : EarlyMoveRoom(s, d, FALSE)
    \/ \E s \in Players, n \in ProstituteNames, r \in DeathRolls :
           EarlyVisitProstitutes(s, n, r)

\* C31: on a paid visit to a named companion every death outcome discards
\* the session's whole GameState, whatever its lives, and every survival
\* outcome keeps the GameState and lowers the damage by at most the
\* companion's healing amount, never below zero.
C31_VisitKillsOrHeals ==
    [][\A s \in Sessions, n \in DOMAIN PROSTITUTES, r \in DeathRolls :
          (/\ EarlyVisitProstitutes(s, n, r)
           /\ early_gs[s].exists
           /\ early_gs[s].money >= PROSTITUTES[n].price)
              => IF r < PROSTITUTES[n].death_risk
                 THEN ~early_gs'[s].exists
                 ELSE /\ early_gs'[s].exists
                      /\ early_gs'[s].lives = early_gs[s].lives
                      /\ early_gs'[s].current_mud_room = early_gs[s].current_mud_room
                      /\ early_gs'[s].damage >= 0
                      /\ early_gs'[s].damage <= early_gs[s].damage
                      /\ early_gs[s].damage - early_gs'[s].damage
                             <= PROSTITUTES[n].healing_amount]_vars

\* a player hurt in the sewer has paid for a visit, survived it and is
\* partly healed
C31_SurvivedAndHealed ==
    \E s \in Sessions :
        /\ early_gs[s].exists
        /\ early_gs[s].page = "wander_result"
        /\ early_gs[s].money < 1000
        /\ early_gs[s].damage \in 1..(EARLY_DAMAGE_THRESHOLD - 1)

\* ----------------------------------- the encounters, earlier iteration

\* encounter_type and action of the form: two of the five encounters and a
\* type the handler does not know; the four buttons of the encounter page
EncounterTypes == {"baby_momma", "drug_deal", "bogus"}
EncounterActions == {"fight", "run", "sneak", "trade"}

\* what handle_encounter does to the GameState before it renders `result`;
\* lucky is the draw of random.random().  assigned tells whether the branch
\* taken has assigned `result`: the first `elif encounter_type == ...` that
\* matches is the only one entered, and it has no branch for 'trade'.
handle_encounter(g, encounter_type, action, lucky) ==
    CASE encounter_type = "baby_momma" /\ action = "fight" ->
             [state |-> [g EXCEPT !.money = Max(0, @ - 200)], assigned |-> TRUE]
      [] encounter_type = "baby_momma" /\ action = "run" ->
             [state |-> IF lucky THEN g ELSE [g EXCEPT !.money = Max(0, @ - 150)],
              assigned |-> TRUE]
      [] encounter_type = "baby_momma" /\ action = "sneak" ->
             [state |-> g, assigned |-> TRUE]
      [] encounter_type = "drug_deal" /\ action \in {"fight", "run", "sneak"} ->
             [state |-> g, assigned |-> TRUE]
      [] OTHER -> [state |-> g, assigned |-> FALSE]

\* POST /handle_encounter: with `result` unassigned, render_template(...,
\* result=result) raises UnboundLocalError before anything is saved
EarlyHandleEncounter(s, encounter_type, action, lucky) ==
    /\ LET g == early_gs[s]
           e == handle_encounter(g, encounter_type, action, lucky)
       IN  IF ~g.exists
           THEN early_gs' = [early_gs EXCEPT ![s].page = "index"]
           ELSE IF e.assigned
           THEN early_gs' = [early_gs EXCEPT ![s] = [e.state EXCEPT !.page = "wander_result"]]
           ELSE early_gs' = [early_gs EXCEPT ![s].page = "error"]
    /\ UNCHANGED << npcs_data, pvp, hs_vars, chat_vars, price_vars, game_vars >>

\* one player posting forms: the encounter page of the earlier iteration,
\* the crack house of the final one
FormsNext ==
    \/ \E s \in Players, e \in EncounterTypes, a \in EncounterActions, lucky \in BOOLEAN :
           EarlyHandleEncounter(s, e, a, lucky)
    \/ \E s \in Players, n \in ProstituteNames, r \in DeathRolls :
           EarlyVisitProstitutes(s, n, r)
    \/ \E s \in Players : EarlyNewGame(s)
    \/ \E s \in Players, a \in {"buy", "sell"}, d \in TradeItems, q \in QuantityTexts :
           TradeDrugsForm(s, a, d, q, FALSE)

\* C33: invalid input to an action route (an unknown identifier, a malformed
\* quantity, an action the encounter type does not support) is handled with
\* a redirect or a rendered page: no request ends in an unhandled exception.
C33_NoUnhandledException ==
    \A s \in Sessions :
        /\ early_gs[s].page # "error"
        /\ ledger[s].last.kind # "error"

\* ---------------------------------------- the duels, earlier iteration

\* alleyway_rooms of handle_pvp_challenge
alleyway_rooms ==
    {"entrance", "alley1", "alley2", "alley_fork", "drug_den",
     "crack_house_entrance", "crack_house_interior", "crack_house_upstairs",
     "back_alley", "dead_end_alley", "service_entrance", "restaurant_kitchen",
     "restaurant_dining", "alley_dead_end", "side_street", "hidden_room",
     "abandoned_lot", "construction_site", "burned_building",
     "building_interior", "rooftop", "rooftop_access", "basement",
     "sewer_entrance", "sewer_tunnel", "underground_chamber", "sewer_grate",
     "sewer_maintenance_tunnel", "sewer_flooded_chamber", "sewer_death_trap"}

\* the health a player joins with
PVP_HEALTH == 100
\* base_damage of calculate_pvp_damage, for the weapons no stock is asked of
base_damage == [knife |-> 3..8, grenade |-> 20..35]
PvpWeapons == DOMAIN base_damage
\* the draws of random.randint(min_dmg, max_dmg) the model follows
PvpDamages == {35}
PvpActions == {"attack", "defend"}

\* socket event 'join' sent by the socket of session s
handle_join(s, room, player_id) ==
    /\ pvp' = [pvp EXCEPT !.players_in_rooms[room][player_id] =
                  [sid |-> s, health |-> PVP_HEALTH, in_fight |-> FALSE,
                   flask_session_id |-> early_gs[s].exists]]
    /\ UNCHANGED << npcs_data, early_gs, hs_vars, chat_vars, price_vars, game_vars >>

\* socket event 'pvp_challenge': it checks and sends messages; a challenge
\* that passes the checks is noted in challenges, which no handler reads
handle_pvp_challenge(s, room, challenger_id, target_id) ==
    /\ LET players == pvp.players_in_rooms[room]
           passes == /\ room \in alleyway_rooms
                     /\ players[challenger_id] # NoPlayer
                     /\ players[target_id] # NoPlayer
                     /\ ~players[challenger_id].in_fight
                     /\ ~players[target_id].in_fight
       IN  pvp' = IF passes
                  THEN [pvp EXCEPT !.challenges =
                            @ \cup {<< room, challenger_id, target_id >>}]
                  ELSE pvp
    /\ UNCHANGED << npcs_data, early_gs, hs_vars, chat_vars, price_vars, game_vars >>

\* socket event 'pvp_accept'; accepted_by notes the socket that sent it
handle_pvp_accept(s, room, challenger_id, accepter_id) ==
    /\ LET players == pvp.players_in_rooms[room]
           refused == \/ players[challenger_id] = NoPlayer
                      \/ players[accepter_id] = NoPlayer
                      \/ players[challenger_id].in_fight
                      \/ players[accepter_id].in_fight
       IN  pvp' = IF refused
                  THEN pvp
                  ELSE [pvp EXCEPT
                           !.players_in_rooms[room] =
                               [p \in Sessions |->
                                   IF p \in {challenger_id, accepter_id}
                                   THEN [players[p] EXCEPT !.in_fight = TRUE]
                                   ELSE players[p]],
                           !.active_pvp_fights[room] =
                               [player1 |-> [id |-> challenger_id,
                                             health |-> players[challenger_id].health],
                                player2 |-> [id |-> accepter_id,
                                             health |-> players[accepter_id].health],
                                current_turn |-> challenger_id,
                                turn_count |-> 1,
                                accepted_by |-> s],
                           !.pvp_fight_end[room] = NoPvpFight]
    /\ UNCHANGED << npcs_data, early_gs, hs_vars, chat_vars, price_vars, game_vars >>

\* the end of a duel clears the game of the session the loser plays in
ClearLosersSession(sessions, s, loser_player_data) ==
    IF loser_player_data.flask_session_id
    THEN [sessions EXCEPT ![loser_player_data.sid] =
             [NewEarlyGameState EXCEPT !.exists = FALSE,
                                       !.page = sessions[loser_player_data.sid].page]]
    ELSE sessions
\* "if loser_player_data.get('flask_session_id'): session.pop('game_state')":
\* session is the session of the socket that sent the event
clear_game_session(sessions, s, loser_player_data) ==
    IF loser_player_data.flask_session_id
    THEN [sessions EXCEPT ![s] =
             [NewEarlyGameState EXCEPT !.exists = FALSE, !.page = sessions[s].page]]
    ELSE sessions

\* socket event 'leave'
handle_leave(s, room, player_id) ==
    /\ pvp' = [pvp EXCEPT !.players_in_rooms[room][player_id] = NoPlayer]
    /\ UNCHANGED << npcs_data, early_gs, hs_vars, chat_vars, price_vars, game_vars >>

\* bound: the turns up to which the model follows a duel
MaxTurns == 6

\* a turn that is counted and not passed on
KeepTurn(fight, opponent_id) ==
    [fight EXCEPT !.turn_count = @ + 1]
\* "Switch turns": fight['current_turn'] = opponent['id'];
\* fight['turn_count'] += 1
switch_turns(fight, opponent_id) ==
    [fight EXCEPT !.current_turn = opponent_id, !.turn_count = @ + 1]

\* socket event 'pvp_action'; damage is the draw of calculate_pvp_damage.
\* pvp_fight_end is the fight as it stood when the event of that name was
\* sent to the room since the room's last accept.  fight_log is only sent to the clients.  players_in_rooms[room][...] of a
\* player who has left raises KeyError: the handler stops there, with what
\* it has changed so far.
handle_pvp_action(s, room, player_id, action, weapon, damage) ==
    /\ damage \in base_damage[weapon]
    /\ LET fight == pvp.active_pvp_fights[room]
           first == player_id = fight.player1.id
           current_player == IF first THEN fight.player1 ELSE fight.player2
           opponent == IF first THEN fight.player2 ELSE fight.player1
           health == Max(0, opponent.health - damage)
           hit == [opponent EXCEPT !.health = health]
           struck == [fight EXCEPT !.player1 = IF first THEN @ ELSE hit,
                                   !.player2 = IF first THEN hit ELSE @]
           players == pvp.players_in_rooms[room]
       IN  IF fight = NoPvpFight \/ fight.current_turn # player_id
           THEN UNCHANGED << pvp, early_gs >>
           ELSE IF action = "attack" /\ players[player_id] = NoPlayer
           THEN UNCHANGED << pvp, early_gs >>
           ELSE IF action = "attack" /\ health <= 0
           THEN IF players[opponent.id] = NoPlayer
                THEN /\ pvp' = [pvp EXCEPT
                                   !.players_in_rooms[room][current_player.id].in_fight = FALSE,
                                   !.active_pvp_fights[room] = struck]
                     /\ UNCHANGED early_gs
                ELSE /\ pvp' = [pvp EXCEPT
                                   !.players_in_rooms[room] =
                                       [p \in Sessions |->
                                           IF p \in {current_player.id, opponent.id}
                                           THEN [players[p] EXCEPT !.in_fight = FALSE]
                                           ELSE players[p]],
                                   !.active_pvp_fights[room] = NoPvpFight,
                                   !.pvp_fight_end[room] = struck]
                     /\ early_gs' = clear_game_session(early_gs, s, players[opponent.id])
           ELSE /\ fight.turn_count < MaxTurns
                /\ pvp' = [pvp EXCEPT !.active_pvp_fights[room] =
                              switch_turns(IF action = "attack" THEN struck ELSE fight,
                                           opponent.id)]
                /\ UNCHANGED early_gs
    /\ UNCHANGED << npcs_data, hs_vars, chat_vars, price_vars, game_vars >>

\* the client joins the room of the page it shows: a socket is in one room
InNoOtherRoom(s, room) ==
    \A r \in PvpRooms \ {room} : pvp.players_in_rooms[r][s] = NoPlayer

\* two sockets, one per session, each under its own player id (the default
\* request.sid), challenging or accepting either player
PvpNext ==
    \/ \E s \in Sessions, room \in PvpRooms :
           InNoOtherRoom(s, room) /\ handle_join(s, room, s)
    \/ \E s \in Sessions, room \in PvpRooms, target \in Sessions :
           handle_pvp_challenge(s, room, s, target)
    \/ \E s \in Sessions, room \in PvpRooms, c \in Sessions :
           handle_pvp_accept(s, room, c, s)
    \/ \E s \in Sessions, room \in PvpRooms, p \in Sessions, a \in PvpActions,
          w \in PvpWeapons, damage \in PvpDamages :
           handle_pvp_action(s, room, p, a, w, damage)
    \/ \E s \in Sessions : EarlyNewGame(s)

\* one room of the alleyway, with players coming and going during a duel
DuelNext ==
    \/ \E s \in Sessions : handle_join(s, "entrance", s)
    \/ \E s \in Sessions, c \in Sessions : handle_pvp_accept(s, "entrance", c, s)
    \/ \E s \in Sessions, p \in Sessions, a \in PvpActions :
           handle_pvp_action(s, "entrance", p, a, "grenade", 35)
    \/ \E s \in Sessions : handle_leave(s, "entrance", s)

\* C36: the participants of a duel act in strict alternation starting with
\* the challenger: a new duel gives the first turn, turn 1, to the
\* challenger; an action for a player whose turn it is not leaves the fight
\* (both healths, turn holder, turn count) unchanged; and each accepted
\* action (for the turn holder, an attacker being in the room) that does
\* not end the duel passes the turn to the opponent and raises the turn
\* count by one.
C36_StrictAlternation ==
    [][/\ \A s \in Sessions, c \in Sessions :
              (/\ handle_pvp_accept(s, "entrance", c, s)
               /\ pvp'.active_pvp_fights # pvp.active_pvp_fights)
                  => /\ pvp'.active_pvp_fights["entrance"].current_turn = c
                     /\ pvp'.active_pvp_fights["entrance"].player1.id = c
                     /\ pvp'.active_pvp_fights["entrance"].turn_count = 1
       /\ \A s \in Sessions, p \in Sessions, a \in PvpActions :
              LET fight == pvp.active_pvp_fights["entrance"]
                  after == pvp'.active_pvp_fights["entrance"]
                  opponent == IF p = fight.player1.id THEN fight.player2
                              ELSE fight.player1
                  lands == a = "attack" /\ pvp.players_in_rooms["entrance"][p] # NoPlayer
              IN  (handle_pvp_action(s, "entrance", p, a, "grenade", 35)
                      /\ fight # NoPvpFight)
                      => /\ fight.current_turn # p => after = fight
                         /\ (/\ fight.current_turn = p
                             /\ a = "attack" => lands
                             /\ ~(lands /\ opponent.health <= 35))
                                => /\ after # NoPvpFight
                                   /\ after.current_turn = opponent.id
                                   /\ after.turn_count = fight.turn_count + 1
                                   /\ after.player1.id = fight.player1.id
                                   /\ after.player2.id = fight.player2.id]_vars

\* two different players three turns into their duel, each hit once
C36_ThirdTurnOfADuel ==
    LET fight == pvp.active_pvp_fights["entrance"]
    IN  /\ fight # NoPvpFight
        /\ fight.player1.id # fight.player2.id
        /\ fight.turn_count = 3
        /\ fight.current_turn = fight.player1.id
        /\ fight.player1.health = 65
        /\ fight.player2.health = 65

\* C37: in every reachable state of the presence and duel maps, a connected
\* player is flagged in_fight if and only if that player is player1 or
\* player2 of the active duel of their room; no participant of an active
\* duel is absent from the room or not flagged.
C37_InFightIffInActiveDuel ==
    \A room \in PvpRooms :
        LET fight == pvp.active_pvp_fights[room]
            players == pvp.players_in_rooms[room]
            participants == IF fight = NoPvpFight THEN {}
                            ELSE {fight.player1.id, fight.player2.id}
        IN  /\ \A p \in Sessions :
                   players[p] # NoPlayer => (players[p].in_fight <=> p \in participants)
            /\ \A p \in participants :
                   players[p] # NoPlayer /\ players[p].in_fight

\* each participant keeps submitting an attack whenever it is their turn
FairDuelNext ==
    \/ \E s \in Sessions : handle_join(s, "entrance", s)
    \/ \E s \in Sessions, c \in Sessions : handle_pvp_accept(s, "entrance", c, s)
    \/ \E s \in Sessions, p \in Sessions :
           handle_pvp_action(s, "entrance", p, "attack", "grenade", 35)
    \/ \E s \in Sessions : handle_leave(s, "entrance", s)

\* the attack of player p on their turn, from either socket
AttackOnTurn(p) ==
    /\ pvp.active_pvp_fights["entrance"] # NoPvpFight
    /\ pvp.active_pvp_fights["entrance"].current_turn = p
    /\ \E s \in Sessions : handle_pvp_action(s, "entrance", p, "attack", "grenade", 35)

\* C38: every started duel eventually ends if each participant keeps
\* attacking on their turn: it reaches a state where exactly one participant
\* has duel health 0, both participants' in_fight flags are cleared and the
\* room's duel record is removed; no duel health is ever below 0.
C38_StartedDuelEnds ==
    LET fight == pvp.active_pvp_fights["entrance"]
        ended == pvp.pvp_fight_end["entrance"]
        players == pvp.players_in_rooms["entrance"]
    IN  /\ [](fight # NoPvpFight => fight.player1.health >= 0 /\ fight.player2.health >= 0)
        /\ (fight # NoPvpFight)
               ~> (/\ fight = NoPvpFight
                   /\ ended # NoPvpFight
                   /\ (ended.player1.health = 0) # (ended.player2.health = 0)
                   /\ \A p \in {ended.player1.id, ended.player2.id} :
                          players[p] = NoPlayer \/ ~players[p].in_fight)

\* C39: cash on hand, the savings balance and the outstanding loan are never
\* negative, whatever integer quantity or amount a trade, bank or encounter
\* request carries.
C39_MoneyNeverNegative ==
    /\ \A s \in Players :
           gs[s].money >= 0 /\ gs[s].account >= 0 /\ gs[s].loan >= 0
    /\ \A s \in Sessions :
           early_gs[s].exists =>
               early_gs[s].money >= 0 /\ early_gs[s].account >= 0 /\ early_gs[s].loan >= 0

\* C40: after every completed request the daily step counter satisfies
\* 0 <= steps < max_steps, and the day counter never decreases.
C40_StepsBelowMaxSteps ==
    /\ [](/\ \A s \in Players : 0 <= gs[s].steps /\ gs[s].steps < gs[s].max_steps
          /\ \A s \in Sessions :
                 early_gs[s].exists =>
                     0 <= early_gs[s].steps /\ early_gs[s].steps < early_gs[s].max_steps)
    /\ [][/\ \A s \in Players : gs'[s].day >= gs[s].day
          /\ \A s \in Sessions :
                 early_gs[s].exists /\ early_gs'[s].exists =>
                     early_gs'[s].day >= early_gs[s].day]_vars

\* C22: a duel starts only through the challenge/accept handshake: a fight
\* between players A and B, A different from B, exists only if A issued a
\* challenge naming B that passed the challenge checks, and it is B's socket
\* that accepted it.
C22_FightOnlyAfterHandshake ==
    \A room \in PvpRooms :
        LET fight == pvp.active_pvp_fights[room]
        IN  (fight # NoPvpFight /\ fight.player1.id # fight.player2.id)
                => /\ << room, fight.player1.id, fight.player2.id >> \in pvp.challenges
                   /\ fight.accepted_by = pvp.players_in_rooms[room][fight.player2.id].sid

\* C23: duels are restricted to the listed alleyway sub-rooms: every active
\* duel is keyed by a room of alleyway_rooms.
C23_FightsOnlyInAlleywayRooms ==
    \A room \in PvpRooms :
        pvp.active_pvp_fights[room] # NoPvpFight => room \in alleyway_rooms

\* C24: when a duel ends because one player's health reaches zero, the game
\* state of the loser's session is cleared and the winner's session keeps
\* its game state.
C24_LoserClearedWinnerKept ==
    [][\A room \in PvpRooms :
          LET fight == pvp.active_pvp_fights[room]
              winner == fight.current_turn
              loser == IF winner = fight.player1.id THEN fight.player2.id
                       ELSE fight.player1.id
              winner_sid == pvp.players_in_rooms[room][winner].sid
              loser_sid == pvp.players_in_rooms[room][loser].sid
          IN  (/\ fight # NoPvpFight
               /\ pvp'.active_pvp_fights[room] = NoPvpFight
               /\ winner_sid # loser_sid)
                  => /\ ~early_gs'[loser_sid].exists
                     /\ early_gs'[winner_sid].exists = early_gs[winner_sid].exists]_vars

\* =================================================================== Fights

\* bound: how far below zero the model follows the lives of a player who
\* fights on after the game is over
MaxLivesOverdrawn == 1

\* enemy_type, as the fight page posts it back
EnemyTypes == {"2 Rival Gang Members", "2 Street Muggers"}
\* "mugger" in enemy_type.lower()
IsMugger(enemy_type) == enemy_type = "2 Street Muggers"

\* the enemy_type of final_battle, and those of wander's police chase,
\* Squidie hit squad and loan sharks
FinalBattleType == "The Squidies Gang (25 members)"
WanderEnemyTypes == {"2 Police Officers", "2 Squidie Hit Squad", "2 Loan Sharks"}
\* "squidie" in enemy_type.lower(), over the types above
IsSquidie(enemy_type) == enemy_type \in {FinalBattleType, "2 Squidie Hit Squad"}
\* the kilos of crack found on the defeated enemy
DrugFinds == {0, 1}

\* random.randint(0, min(2, enemy_count)) "if enemy_type != "Police
\* Officers"", else 0
Recruits(enemy_type, enemy_count) ==
    IF enemy_type # "Police Officers" THEN 0..Min(2, enemy_count) ELSE {0}

\* fight_npc: enemy_type is the NPC's name; the model names an NPC by its id
NpcName(npc_id) == npc_id

\* the victory leaves the roster as it was
NpcSpared(npcs, npc_id) == npcs
\* npcs_data[npc_id]['is_alive'] = False
npc_defeated(npcs, npc_id) == [npcs EXCEPT ![npc_id].is_alive = FALSE]

\* enemy_count as posted, and the enemy's health once the player's own
\* attack has been taken off the posted enemy_health (the weapons and the
\* damage they deal are not modelled; no ghost gun is fired)
EnemyCounts == {1, 2}
EnemyHealths == {0, 20}

\* draws of random.randint(5, 15), (2, 10) and (10, 20)
AttackRolls == {5, 15}
DefendRolls == {5, 10}
FleeRolls == {10, 20}
\* the session of the player who fights
Fighters == {"s1"}

\* a fight request: how it ended, the lives the player had before it, and
\* whether the opponent's hit took the damage to the threshold
Fight(session, outcome, mugger, before, hit) ==
    [session |-> session, outcome |-> outcome, mugger |-> mugger,
     lives_before |-> before.lives, opponent_hit |-> hit, won |-> [npc_id |-> ""]]

\* a victory: over whom, the gang before it and the defectors, whether the
\* player was sent to /game_win, and the gang wars won that
\* check_and_update_high_scores was called with
Won(enemy_type, npc_id, before, recruits, game_win) ==
    [enemy_type |-> enemy_type, npc_id |-> npc_id, members_before |-> before.members,
     recruits |-> recruits, game_win |-> game_win,
     gang_wars_won |-> IF game_win THEN 1 ELSE 0]

\* the enemy's counter-attack on an attack: a gang member takes it, or the
\* player does (less what the vest absorbs), and a gang member may die in
\* the crossfire
CounterAttack(g, enemy_damage, hits_member, vest_absorbs, collateral) ==
    IF g.members > 1 /\ hits_member
    THEN LET g1 == [g EXCEPT !.members = @ - 1]
         IN  [g1 EXCEPT !.health = Min(@, max_health(g1))]
    ELSE LET absorbed == g.vest > 0 /\ vest_absorbs
             dealt == IF absorbed THEN Max(0, enemy_damage - 20) ELSE enemy_damage
             g1 == [g EXCEPT !.vest = IF absorbed THEN @ - 1 ELSE @,
                             !.damage = @ + dealt]
             g2 == [g1 EXCEPT !.members = @ - 1]
         IN  IF g1.health - g1.damage > dealt /\ g1.members > 1 /\ collateral
             THEN [g2 EXCEPT !.health = Min(@, max_health(g2))]
             ELSE g1

\* "Check win/lose conditions", victory: the NPC's $100 (of the drops the
\* draw where the NPC drops nothing), the recruits join, the crack found
Victory(g, looted, recruits, found) ==
    LET g0 == [g EXCEPT !.money = IF looted THEN @ + 100 ELSE @,
                        !.drugs["crack"] = @ + found]
        g1 == [g0 EXCEPT !.members = @ + recruits]
    IN  IF recruits > 0
        THEN [g1 EXCEPT !.health = Min(max_health(g1), @ + 10 * recruits)]
        ELSE g0

\* the muggers' defeat: robbed, left with 1 HP
Mugged(g) == [g EXCEPT !.money = 0, !.damage = DAMAGE_THRESHOLD - 1, !.health = 1]

\* the normal defeat: a life, the damage, the health, the cash above $500
Defeated(g) ==
    [g EXCEPT !.lives = @ - 1, !.damage = 0, !.health = 30,
              !.money = IF @ > 500 THEN 500 ELSE @]

FightOutcome(g, enemy_type, enemy_health) ==
    IF enemy_health <= 0 THEN "victory"
    ELSE IF g.damage >= DAMAGE_THRESHOLD
         THEN IF IsMugger(enemy_type) THEN "mugged" ELSE "defeat"
         ELSE "continue"

\* process_fight_action from "Check win/lose conditions" on; g is the state
\* the action has left.  The win over a Squidie enemy calls
\* check_and_update_high_scores(game_state, 1, 0) twice; the second call
\* finds the entry of the first and leaves the file as it is.
FightEnds(s, g, enemy_type, npc_id, enemy_health, recruits, found, hit) ==
    LET outcome == FightOutcome(g, enemy_type, enemy_health)
        looted == outcome = "victory" /\ npc_id \in DOMAIN npcs_data
        g1 == CASE outcome = "victory" -> Victory(g, looted, recruits, found)
                [] outcome = "mugged" -> Mugged(g)
                [] outcome = "defeat" -> Defeated(g)
                [] OTHER -> g
        game_over == outcome = "defeat" /\ g1.lives <= 0
        game_win == outcome = "victory" /\ IsSquidie(enemy_type)
        commits == (game_over \/ game_win) /\ g1.player_name # "" /\ g1.gang_name # ""
    IN  /\ g1.members <= MaxMembers
        /\ g1.money <= MaxMoney
        /\ g1.drugs["crack"] <= MaxKilos
        /\ commits => hs_started < MaxCommits
        /\ gs' = [gs EXCEPT ![s] = save_game_state(g1)]
        /\ npcs_data' = IF looted THEN npc_defeated(npcs_data, npc_id) ELSE npcs_data
        /\ last_fight' = [Fight(s, outcome, IsMugger(enemy_type), gs[s],
                                hit /\ g.damage >= DAMAGE_THRESHOLD)
                             EXCEPT !.won = IF outcome = "victory"
                                            THEN Won(enemy_type, npc_id, g, recruits, game_win)
                                            ELSE @]
        /\ hs_call' = IF commits
                      THEN [hs_call EXCEPT ![s] =
                               LoadedCall(high_scores, g1.player_name, g1.gang_name,
                                          g1.money + g1.account, g1.day,
                                          IF game_win THEN 1 ELSE 0, 0)]
                      ELSE hs_call
        /\ hs_started' = IF commits THEN hs_started + 1 ELSE hs_started
        /\ ledger' = [ledger EXCEPT ![s].combat =
                         IF @ = "open" /\ outcome # "continue" THEN "resolved" ELSE @]
        /\ UNCHANGED << high_scores, hs_initial, hs_best, hs_daily, alley_room,
                        chat_vars, price_vars, early_gs, pvp >>

FightReady(s) ==
    /\ hs_call[s].pc = "idle"
    /\ gs[s].lives > -MaxLivesOverdrawn

\* POST /process_fight_action, action=attack; enemy_health: what the
\* player's attack has left of the posted enemy_health; found: the kilos of
\* crack a victory finds on the enemy
FightAttack(s, enemy_type, npc_id, enemy_count, enemy_health, found) ==
    /\ FightReady(s)
    /\    IF enemy_health > 0
          THEN \E roll \in AttackRolls, hits_member \in BOOLEAN, collateral \in BOOLEAN,
                  vest_absorbs \in (IF gs[s].vest > 0 THEN BOOLEAN ELSE {FALSE}) :
                   FightEnds(s, CounterAttack(gs[s], roll * enemy_count, hits_member,
                                              vest_absorbs, collateral),
                             enemy_type, npc_id, enemy_health, 0, 0, TRUE)
          ELSE \E recruits \in Recruits(enemy_type, enemy_count) :
                   FightEnds(s, gs[s], enemy_type, npc_id, enemy_health, recruits, found,
                             FALSE)

\* POST /process_fight_action, action=defend
FightDefend(s, enemy_type, npc_id, enemy_count, enemy_health, found) ==
    /\ FightReady(s)
    /\    IF enemy_health > 0
          THEN \E roll \in DefendRolls :
                   FightEnds(s, [gs[s] EXCEPT !.damage = @ + roll * enemy_count],
                             enemy_type, npc_id, enemy_health, 0, 0, TRUE)
          ELSE \E recruits \in Recruits(enemy_type, enemy_count) :
                   FightEnds(s, gs[s], enemy_type, npc_id, enemy_health, recruits, found,
                             FALSE)

\* POST /process_fight_action, action=flee, the escape: saved, back to the
\* city
FightFleeEscaped(s) ==
    /\ FightReady(s)
    /\ gs' = [gs EXCEPT ![s] = save_game_state(gs[s])]
    /\ last_fight' = Fight(s, "escaped", FALSE, gs[s], FALSE)
    /\ ledger' = [ledger EXCEPT ![s].combat = IF @ = "open" THEN "resolved" ELSE @]
    /\ UNCHANGED world_vars
    /\ UNCHANGED << hs_daily, alley_room, hs_vars, chat_vars, price_vars >>

\* POST /process_fight_action, action=flee, caught: the enemy attacks.
\* The form is posted while the enemy stands.
FightFleeCaught(s, enemy_type, enemy_count) ==
    /\ FightReady(s)
    /\ \E enemy_health \in {h \in EnemyHealths : h > 0}, roll \in FleeRolls :
          FightEnds(s, [gs[s] EXCEPT !.damage = @ + roll * enemy_count],
                    enemy_type, "", enemy_health, 0, 0, TRUE)

\* POST /process_fight_action, action=use_drug with a drug the player
\* holds, while the enemy stands: crack costs 5 damage, percs take 10 off
FightUseDrug(s, drug, enemy_type) ==
    /\ FightReady(s)
    /\ LET g == CASE drug = "crack" -> [gs[s] EXCEPT !.damage = @ + 5]
                  [] drug = "percs" -> [gs[s] EXCEPT !.damage = Max(0, @ - 10)]
                  [] OTHER -> gs[s]
       IN  \E enemy_health \in {h \in EnemyHealths : h > 0} :
               FightEnds(s, g, enemy_type, "", enemy_health, 0, 0, FALSE)

\* GET /attempt_flee_npc/<npc_id> for a known NPC: the escape, or the NPC's
\* attack
AttemptFleeNpc(s, escaped, damage) ==
    /\ FightReady(s)
    /\ LET g == [gs[s] EXCEPT !.damage = @ + damage]
           defeated == g.damage >= 30
           g1 == IF escaped THEN gs[s]
                 ELSE IF defeated
                      THEN [g EXCEPT !.lives = @ - 1, !.damage = 0, !.health = 30]
                      ELSE g
       IN  /\ gs' = [gs EXCEPT ![s] = save_game_state(g1)]
           /\ last_fight' =
                  Fight(s, IF escaped THEN "escaped"
                           ELSE IF defeated THEN "defeat" ELSE "continue",
                        FALSE, gs[s], ~escaped /\ defeated)
    /\ UNCHANGED world_vars
    /\ UNCHANGED << hs_daily, alley_room, ledger, hs_vars, chat_vars, price_vars >>

\* one player's fights, from a new game on; the commit a game over starts
\* is finished by HsCommitSave
FightNext ==
    \/ \E s \in Fighters : NewGame(s, "al", "x")
    \/ \E s \in Fighters, t \in EnemyTypes, n \in EnemyCounts, h \in EnemyHealths :
           FightAttack(s, t, "", n, h, 0)
    \/ \E s \in Fighters, t \in EnemyTypes, n \in EnemyCounts, h \in EnemyHealths :
           FightDefend(s, t, "", n, h, 0)
    \/ \E s \in Fighters : FightFleeEscaped(s)
    \/ \E s \in Fighters, t \in EnemyTypes, n \in EnemyCounts : FightFleeCaught(s, t, n)
    \/ \E s \in Fighters, d \in {"weed", "crack", "percs"}, t \in EnemyTypes :
           FightUseDrug(s, d, t)
    \/ \E s \in Fighters, escaped \in BOOLEAN, d \in AttackRolls :
           AttemptFleeNpc(s, escaped, d)
    \/ \E s \in Fighters : HsCommitSave(s)

\* GET /pickup_loot/<npc_id> for an NPC of the roster: $100 from the body
\* of a dead NPC; the ledger keeps what the session saw of the NPC
PickupLoot(s, npc_id) ==
    /\ hs_call[s].pc = "idle"
    /\ LET npc == npcs_data[npc_id]
           g == IF ~npc.is_alive THEN [gs[s] EXCEPT !.money = @ + 100] ELSE gs[s]
       IN  /\ g.money <= MaxMoney
           /\ gs' = [gs EXCEPT ![s] = save_game_state(g)]
           /\ ledger' = [ledger EXCEPT ![s].last =
                            [kind |-> "pickup_loot", npc_id |-> npc_id,
                             seen_alive |-> npc.is_alive]]
    /\ UNCHANGED << hs_daily, last_fight, alley_room, npcs_data, early_gs, pvp,
                    hs_vars, chat_vars, price_vars >>

\* GET /cop_chase: the fight page, with a new combat_id; nothing is saved
CopChase(s) ==
    /\ hs_call[s].pc = "idle"
    /\ ledger' = [ledger EXCEPT ![s].combat = "open"]
    /\ UNCHANGED << gs, hs_daily, last_fight, alley_room, world_vars,
                    hs_vars, chat_vars, price_vars >>

\* one player's fights with the police: the fight page, the attacks and
\* the escape
CombatNext ==
    \/ \E s \in Fighters : NewGame(s, "al", "x")
    \/ \E s \in Fighters : CopChase(s)
    \/ \E s \in Fighters, h \in EnemyHealths :
           FightAttack(s, "2 Police Officers", "", 2, h, 0)
    \/ \E s \in Fighters : FightFleeEscaped(s)
    \/ \E s \in Fighters : HsCommitSave(s)

\* whom the fight pages of the final battle, of wander and of fight_npc
\* name: enemy_type and npc_id
Opponents ==
    {<< t, "" >> : t \in EnemyTypes \cup WanderEnemyTypes \cup {FinalBattleType}}
        \cup {<< NpcName(n), n >> : n \in NpcIds}

\* one player's winning attacks on every kind of opponent
VictoryNext ==
    \/ \E s \in Fighters : NewGame(s, "al", "x")
    \/ \E s \in Fighters, o \in Opponents, found \in DrugFinds :
           FightAttack(s, o[1], o[2], 1, 0, found)
    \/ \E s \in Fighters : HsCommitSave(s)

\* one player's winning attacks on the NPCs, and both sessions looking at
\* the NPCs
NpcNext ==
    \/ \E s \in Fighters : NewGame(s, "al", "x")
    \/ \E s \in Fighters, n \in NpcIds : FightAttack(s, NpcName(n), n, 1, 0, 0)
    \/ \E s \in Sessions, n \in NpcIds : PickupLoot(s, n)

\* ------------------------------------------------------ fights: properties

\* C21: a fight action of a session that holds no open combat (no fight
\* page was given to it, or the fight of its page is resolved), so that
\* whatever combat id the action names is unknown or resolved, is rejected:
\* it leaves the session's GameState as it was and is no victory.
C21_NoFightWithoutOpenCombat ==
    [][\A s \in Sessions :
          (/\ ledger[s].combat # "open"
           /\ last_fight' # last_fight
           /\ last_fight'.outcome # "none"
           /\ last_fight'.session = s)
              => /\ gs'[s] = gs[s]
                 /\ last_fight'.outcome # "victory"]_vars

\* C18: a victory sends the player to /game_win and commits one gang-war
\* win exactly when the opponent is the boss faction of the final battle;
\* a victory over any other opponent does neither.
C18_WinPathOnlyForFinalBattle ==
    last_fight.outcome = "victory"
        => LET w == last_fight.won
               boss == w.enemy_type = FinalBattleType
           IN  /\ w.game_win <=> boss
               /\ w.gang_wars_won = IF boss THEN 1 ELSE 0

\* C19: after a victory over police officers no enemy has defected and the
\* gang is no larger than before.
C19_NoDefectorsFromPolice ==
    (last_fight.outcome = "victory" /\ last_fight.won.enemy_type = "2 Police Officers")
        => /\ last_fight.won.recruits = 0
           /\ gs[last_fight.session].members <= last_fight.won.members_before

\* C20: a victory over an NPC leaves the NPC dead in the roster; a dead NPC
\* is never alive again; and a session that looks at an NPC that is dead
\* sees it dead.
C20_DeadNpcStaysDead ==
    [][\A n \in NpcIds :
          /\ (last_fight'.outcome = "victory" /\ last_fight'.won.npc_id = n)
                => ~npcs_data'[n].is_alive
          /\ ~npcs_data[n].is_alive => ~npcs_data'[n].is_alive
          /\ \A s \in Sessions :
                (/\ ledger'[s].last # ledger[s].last
                 /\ ledger'[s].last.kind = "pickup_loot"
                 /\ ledger'[s].last.npc_id = n
                 /\ ~npcs_data[n].is_alive)
                    => ~ledger'[s].last.seen_alive]_vars

\* the NPC one session has defeated, seen dead by the other session
C20_OtherSessionSeesDeadNpc ==
    \E n \in NpcIds, s \in Sessions :
       /\ last_fight.outcome = "victory" /\ last_fight.won.npc_id = n
       /\ s # last_fight.session
       /\ ledger[s].last.kind = "pickup_loot" /\ ledger[s].last.npc_id = n
       /\ ~ledger[s].last.seen_alive
       /\ ~npcs_data[n].is_alive


\* C10: whenever a non-mugger opponent's hit pushes the damage counter to or
\* past the threshold, the player loses exactly one life, the damage counter
\* is reset to 0 and health is reset to the maximum health,
\* 30 + 10 x (gang members - 1).
C10_DefeatResetsToMaxHealth ==
    (last_fight.outcome # "none" /\ last_fight.opponent_hit /\ ~last_fight.mugger)
        => LET g == gs[last_fight.session]
           IN  /\ g.lives = last_fight.lives_before - 1
               /\ g.damage = 0
               /\ g.health = 30 + 10 * (g.members - 1)

\* C11: the lives counter is never below zero, and once it has reached zero
\* no further fight or flee request decrements it again.
C11_LivesNeverBelowZero ==
    [][\A s \in Sessions :
          /\ gs'[s].lives >= 0
          /\ gs[s].lives <= 0 => gs'[s].lives >= gs[s].lives]_vars

\* ------------------------------------------------ price file: properties

\* C7: once the price table has been regenerated on a calendar day, no
\* request (city, bar, a wander that ends an in-game day) changes the shared
\* prices again until the calendar day changes.
C7_RegeneratedOncePerDay ==
    [][(price_regen_day = today /\ today' = today)
          => price_file'.prices = price_file.prices]_vars

\* C8: a bar request that refreshes the prices (the first bar visit of a
\* calendar day, the stored counter reaching 2) ends with the newly
\* regenerated prices in the shared file and the counter back at zero.
C8_BarRefreshStoresNewPrices ==
    (last_request.route = "bar" /\ last_request.regenerated)
        => /\ price_file.prices = last_request.new_prices
           /\ price_file.update_count = 0

\* C9: a bar visit that does not refresh leaves the prices as they were, and
\* does not stop the city page from performing the day's regeneration: once
\* a city request has completed, the prices have been regenerated that
\* calendar day.
C9_BarCounterIndependent ==
    /\ (last_request.route = "bar" /\ ~last_request.regenerated)
           => price_file.prices = last_request.prices_before
    /\ last_request.route = "city" => price_regen_day = today

\* ============================================================== sessions

\* the requests and socket events one session issues: trades with an NPC of
\* the shared roster in the final iteration; a new game, a loan, and the
\* duel events in the alleyway entrance in the earlier iteration
SessionRequest(s) ==
    \/ \E a \in {"buy", "sell"} : NpcTradeAction(s, "npc_a", a, "crack", 1)
    \/ EarlyNewGame(s)
    \/ handle_join(s, "entrance", s)
    \/ \E c \in Sessions : handle_pvp_accept(s, "entrance", c, s)
    \/ \E p \in Sessions : handle_pvp_action(s, "entrance", p, "attack", "grenade", 35)

SessionsNext == \E s \in Sessions : SessionRequest(s)

Init == HsInit /\ ChatInit /\ PriceInit /\ GameInit

\* the other resources at rest around the one a specification exercises
InitEmptyBoard == Init /\ high_scores = << >>

Next ==
    \/ HsNext
    \/ ChatNext
    \/ PriceNext
    \/ FightNext
    \/ BankNext
    \/ AlleyNext
    \/ LoanNext
    \/ ShopNext
    \/ VictoryNext
    \/ NpcNext
    \/ CombatNext
    \/ EarlyAlleyNext
    \/ PvpNext
    \/ DuelNext
    \/ FairDuelNext
    \/ PollNext
    \/ ScoreNext
    \/ FormsNext
    \/ CompanionNext
    \/ SessionsNext
    \/ \E s \in Sessions, pr \in NamedPairs : NewGame(s, pr[1], pr[2])
    \/ \E s \in Sessions, e \in WanderEvents, c \in CashFound \cup {0},
          np \in NewPriceTables : Wander(s, e, c, np)

Spec == Init /\ [][Next]_vars

\* the leaderboard alone
SpecBoard == Init /\ [][HsNext]_vars

\* the chat alone
SpecChat == InitEmptyBoard /\ [][ChatNext]_vars

\* the price file alone
SpecPrices == InitEmptyBoard /\ [][PriceNext]_vars

\* one player's bank requests
SpecBank == InitEmptyBoard /\ [][BankNext]_vars

\* one player's shopping and banking
SpecShop == InitEmptyBoard /\ [][ShopNext]_vars

\* one player at the bank of either iteration
SpecLoans == InitEmptyBoard /\ [][LoanNext]_vars

\* one player in the alleyway
SpecAlley == InitEmptyBoard /\ [][AlleyNext]_vars
SpecEarlyAlley == InitEmptyBoard /\ [][EarlyAlleyNext]_vars
SpecPvp == InitEmptyBoard /\ [][PvpNext]_vars
SpecPoll == InitEmptyBoard /\ [][PollNext]_vars
SpecDuel == InitEmptyBoard /\ [][DuelNext]_vars
SpecFairDuel ==
    /\ InitEmptyBoard
    /\ [][FairDuelNext]_vars
    /\ \A p \in Sessions : WF_vars(AttackOnTurn(p))
SpecScore == InitEmptyBoard /\ [][ScoreNext]_vars
SpecForms == InitEmptyBoard /\ [][FormsNext]_vars
SpecCompanions == InitEmptyBoard /\ [][CompanionNext]_vars
SpecSessions == InitEmptyBoard /\ [][SessionsNext]_vars

\* one player's fights with the police
SpecCombat == InitEmptyBoard /\ [][CombatNext]_vars

\* one player's victories
SpecVictory == InitEmptyBoard /\ [][VictoryNext]_vars

\* one player's victories over the NPCs, two sessions looking at them
SpecNpc == InitEmptyBoard /\ [][NpcNext]_vars

\* one player's fights
SpecFight == InitEmptyBoard /\ [][FightNext]_vars
====
